---- MODULE Spec2Model ----
(***************************************************************************)
(* Evolunary: the verifiable state-transition log (stateMachine/sm.ts) and *)
(* the swarm runtime (SwarmManager, AgentMailbox, SwarmPersistence and the *)
(* worker thread).                                                         *)
(*                                                                         *)
(* Hashes are modelled as terms: SHA256 is taken to be collision free, so  *)
(* a digest is represented by what was hashed.  A leaf digest is           *)
(* <<"L", record>>, the digest of the concatenation of two nodes is        *)
(* <<"N", left, right>>, the empty buffer is <<"E">>.  A '0x'-prefixed hex *)
(* string is <<"0x", digest>>, a bare hex string is the digest itself.     *)
(***************************************************************************)
EXTENDS Integers, Sequences, FiniteSets, TLC

(***************************************************************************)
(* Bounds                                                                  *)
(***************************************************************************)
MaxHistory == 2        \* longest hash history when calls may overlap
MaxDepth == 3          \* longest hash history when calls run one at a time
MaxClock == 1          \* Date.now() ranges over 0..MaxClock
MaxCalls == 2          \* transitionTo calls that may be in flight together
MaxWorkers == 2        \* Worker objects created in one run
MaxPending == 1        \* startAgent calls per agent awaiting their first write
MaxSends == 1          \* mailbox sends in one run
MaxSuffix == 1         \* distinct (Date.now(), Math.random()) parts of an id
MaxEnds == 1           \* threads that end by themselves in one run
MaxTimeouts == 1       \* startup timers that fire in one run
MaxMailSends == 2      \* mailbox sends in one run of the mailbox alone
MaxMailSuffix == 2     \* distinct id parts in one run of the mailbox alone

(***************************************************************************)
(* State                                                                   *)
(***************************************************************************)
VARIABLES
    currentState,      \* AgentStateMachine.currentState
    stateHistory,      \* BaseState.stateHistory
    merkleTree,        \* BaseState.merkleTree, as its layers
    loggerLogs,        \* StateMachineLogger.logs
    execution_logs,    \* rows of the execution_logs table
    now,               \* the wall clock read by Date.now()
    calls,             \* transitionTo calls suspended at `await broadcast`
    proofLog,          \* every Proof generateProof has built, in order
    overlapped,        \* some transitionTo began while another was in flight
    smLast             \* outcome of the latest transitionTo step

VARIABLES
    workers,           \* SwarmManager.workers: agent id -> Worker (0: none)
    activeAgents,      \* SwarmManager.activeAgents
    messageQueue,      \* AgentMailbox.messageQueue: the agents with a queue
    listeners,         \* AgentMailbox.emitter: per agent, the workers its
                       \* `message:<id>` listeners post to
    responseCallbacks, \* AgentMailbox.responseCallbacks: id -> promise
    sendLog,           \* the promises mailbox.sendMessage has returned, each
                       \* with the number of times its resolver was called
    wk,                \* the Worker objects, their threads and the state of
                       \* the handlers and of the startAgent call bound to them
    pendUpsert,        \* per agent, startAgent calls awaiting the upsert
    pendAlready,       \* per agent, startAgent calls in the catch block
                       \* after 'Agent already running'
    swarm_agents,      \* rows of the swarm_agents table
    swarm_logs,        \* rows of the swarm_logs table
    ends,              \* the number of threads that ended by themselves
    swLast             \* the supervisor step taken last

VARIABLES
    boot,              \* the position of the initialize() call and what it
                       \* has done for each persisted record
    down               \* the position of the shutdown() call

VARIABLES
    sigCheck           \* a signature made by sign and the verifySignature
                       \* call that examines it

smVars == <<currentState, stateHistory, merkleTree, loggerLogs,
            execution_logs, now, calls, proofLog, overlapped, smLast>>

\* The calls of initialize() and shutdown()
runVars == <<boot, down>>

sigVars == <<sigCheck>>

swVars == <<workers, activeAgents, messageQueue, listeners, responseCallbacks,
            sendLog, wk, pendUpsert, pendAlready, swarm_agents, swarm_logs,
            ends, swLast, runVars, sigVars>>

vars == <<smVars, swVars>>

(***************************************************************************)
(* State machine: sm.ts                                                    *)
(***************************************************************************)
AgentStates ==
    {"IDLE", "INIT", "GOAL_PARSE", "PLANNING", "EXECUTING",
     "VALIDATING", "REPORTING", "COMPLETED", "ERROR", "TERMINATED"}

validTransitions ==
    [s \in AgentStates |->
        CASE s = "IDLE" -> {"INIT", "ERROR", "TERMINATED"}
          [] s = "INIT" -> {"GOAL_PARSE", "ERROR", "TERMINATED", "IDLE"}
          [] s = "GOAL_PARSE" -> {"PLANNING", "ERROR", "TERMINATED", "IDLE"}
          [] s = "PLANNING" ->
                {"PLANNING", "EXECUTING", "ERROR", "TERMINATED", "IDLE"}
          [] s = "EXECUTING" ->
                {"EXECUTING", "VALIDATING", "REPORTING", "ERROR",
                 "TERMINATED", "IDLE"}
          [] s = "VALIDATING" ->
                {"VALIDATING", "COMPLETED", "REPORTING", "EXECUTING",
                 "ERROR", "TERMINATED", "IDLE"}
          [] s = "REPORTING" ->
                {"VALIDATING", "REPORTING", "COMPLETED", "ERROR",
                 "TERMINATED", "IDLE"}
          [] s = "COMPLETED" -> {"TERMINATED", "IDLE"}
          [] s = "ERROR" -> {"TERMINATED", "IDLE"}
          [] s = "TERMINATED" -> {}]

\* The action strings and params the callers pass.
Actions == {"run"}
NullParams == "null"

PrivateKey == "k1"

EmptyBuffer == <<"E">>
EmptyString == <<"">>

\* SHA256(JSON.stringify({timestamp, from, to, action, params})).toString()
hashState(state, timestamp) ==
    <<"L", <<timestamp, state.from, state.to, state.action, state.params>>>>

\* hashFn(Buffer.concat([left, right]))
HashPair(left, right) == <<"N", left, right>>

\* MerkleTree.bufferToHex: '0x' + hex
bufferToHex(b) == <<"0x", b>>

\* MerkleTree.bufferify of a hex string: the optional 0x prefix is dropped
bufferify(v) == IF v[1] = "0x" THEN v[2] ELSE v

\* Mutant of NextLayer: an unpaired last node is paired with itself.
NextLayerDuplicateOdd(nodes) ==
    [i \in 1..((Len(nodes) + 1) \div 2) |->
        IF 2 * i <= Len(nodes)
        THEN HashPair(nodes[2 * i - 1], nodes[2 * i])
        ELSE HashPair(nodes[2 * i - 1], nodes[2 * i - 1])]

\* One round of MerkleTree._createHashes: pairs are hashed left||right, an
\* unpaired last node is carried up unchanged (duplicateOdd is off).
NextLayer(nodes) ==
    [i \in 1..((Len(nodes) + 1) \div 2) |->
        IF 2 * i <= Len(nodes)
        THEN HashPair(nodes[2 * i - 1], nodes[2 * i])
        ELSE nodes[2 * i - 1]]

RECURSIVE CreateHashes(_)
CreateHashes(layers) ==
    IF Len(layers[Len(layers)]) <= 1
    THEN layers
    ELSE CreateHashes(Append(layers, NextLayer(layers[Len(layers)])))

\* new MerkleTree(leaves, SHA256): the leaves are hex strings, kept in order
\* and not hashed again (hashLeaves, sortLeaves, sortPairs are off).
MerkleTree(leaves) ==
    CreateHashes(<<[i \in 1..Len(leaves) |-> bufferify(leaves[i])]>>)

getRoot(tree) ==
    IF Len(tree[Len(tree)]) = 0 THEN EmptyBuffer ELSE tree[Len(tree)][1]

getHexRoot(tree) == bufferToHex(getRoot(tree))

\* The index getProof searches for: the last leaf equal to `leaf`, 0-based,
\* -1 when there is none.
LeafIndex(tree, leaf) ==
    LET hits == {i \in 1..Len(tree[1]) : tree[1][i] = bufferify(leaf)}
    IN IF hits = {} THEN -1
       ELSE (CHOOSE i \in hits : \A j \in hits : j <= i) - 1

\* MerkleTree.getProof with a known 0-based index: walking up the layers,
\* the sibling of the node on the path is pushed when the layer has one.
RECURSIVE ProofFrom(_, _, _)
ProofFrom(tree, layer, index) ==
    IF layer > Len(tree) THEN <<>>
    ELSE LET isRightNode == index % 2 = 1
             pairIndex == IF isRightNode THEN index - 1 ELSE index + 1
             rest == ProofFrom(tree, layer + 1, index \div 2)
         IN IF pairIndex < Len(tree[layer])
            THEN <<[position |-> IF isRightNode THEN "left" ELSE "right",
                    data |-> tree[layer][pairIndex + 1]]>> \o rest
            ELSE rest

getProof(tree, leaf) ==
    IF LeafIndex(tree, leaf) <= -1 THEN <<>>
    ELSE ProofFrom(tree, 1, LeafIndex(tree, leaf))

\* MerkleTree.getHexProof: the sibling digests only, as 0x hex strings
getHexProof(tree, leaf) ==
    LET p == getProof(tree, leaf)
    IN [i \in 1..Len(p) |-> bufferToHex(p[i].data)]

\* MerkleTree.verify for a proof of {position, data} objects
RECURSIVE VerifyFrom(_, _, _)
VerifyFrom(proof, i, hash) ==
    IF i > Len(proof) THEN hash
    ELSE VerifyFrom(proof, i + 1,
            IF proof[i].position = "left"
            THEN HashPair(bufferify(proof[i].data), hash)
            ELSE HashPair(hash, bufferify(proof[i].data)))

verify(proof, targetNode, root) ==
    VerifyFrom(proof, 1, bufferify(targetNode)) = bufferify(root)

\* MerkleTree.verify for a proof of hex strings: every node is taken as a
\* left sibling.
verifyHex(hexProof, targetNode, root) ==
    verify([i \in 1..Len(hexProof) |->
                [position |-> "left", data |-> hexProof[i]]],
           targetNode, root)

\* BaseState.sign
\* createSign('SHA256').update(hash).sign(key, 'hex'): the signature of the
\* hash under the private key, hex-encoded.
signWith(privateKey, hash) == bufferToHex(<<"sig", privateKey, hash>>)

sign(hash) == signWith(PrivateKey, hash)

\* Buffer.from(signature, 'hex'): the bytes a hex string stands for; a string
\* that is not hex yields the empty buffer.
bufferFromHex(string) ==
    IF string[1] = "0x" THEN string[2] ELSE EmptyBuffer

PrivateKeys == {"k1", "k2"}

\* The public key of the pair a private key belongs to
publicKeyOf(privateKey) == <<"pub", privateKey>>

\* Verify.verify(publicKey, signature) after update(data): the signature is
\* the one the private key of that pair makes over the data.
verifierVerify(data, publicKey, signature) ==
    \E k \in PrivateKeys :
        /\ publicKeyOf(k) = publicKey
        /\ signature = <<"sig", k, data>>

\* Mutant of verifySignature: the verifier is not fed the hash.
verifySignatureSkipsUpdate(hash, signature, publicKey) ==
    LET b == bufferFromHex(signature)
    IN /\ Len(b) = 3
       /\ verifierVerify(b[3], publicKey, b)

verifySignature(hash, signature, publicKey) ==
    verifierVerify(hash, publicKey, bufferFromHex(signature))

\* Mutant of PrevHash: the index is off by one (length - 1).
PrevHashOffByOne(history) ==
    IF Len(history) >= 1 THEN history[Len(history)] ELSE EmptyString

\* this.stateHistory[this.stateHistory.length - 2] || ''
PrevHash(history) ==
    IF Len(history) - 1 >= 1 THEN history[Len(history) - 1] ELSE EmptyString

\* BaseState.generateProof: the new history, the rebuilt tree and the Proof.
\* t1 is the clock read by hashState, t2 the later read for Proof.timestamp.
generateProof(state, t1, t2) ==
    LET stateHash == hashState(state, t1)
        history == Append(stateHistory, stateHash)
        tree == MerkleTree(history)
    IN [history |-> history,
        tree |-> tree,
        proof |-> [stateHash |-> stateHash,
                   prevHash |-> PrevHash(history),
                   merkleRoot |-> getHexRoot(tree),
                   merkleProof |-> getHexProof(tree, stateHash),
                   signature |-> sign(stateHash),
                   timestamp |-> t2]]

CallIds == 1..MaxCalls
Idle == [pc |-> "idle"]
NoOutcome == [op |-> "none", call |-> 0]

\* A new call takes the first free slot (the slots are interchangeable).
FreeSlot(c) == calls[c] = Idle /\ \A d \in 1..(c - 1) : calls[d] # Idle

InitSM ==
    /\ currentState = "INIT"
    /\ stateHistory = <<>>
    /\ merkleTree = MerkleTree(<<>>)
    /\ loggerLogs = <<>>
    /\ execution_logs = <<>>
    /\ now = 0
    /\ calls = [c \in CallIds |-> Idle]
    /\ proofLog = <<>>
    /\ overlapped = FALSE
    /\ smLast = NoOutcome

\* Mutant of HasTransition: any known state is accepted as a target.
HasTransitionAnyState(from, to) == to \in AgentStates

\* The guard of transitionTo: the target is an edge of the current node.
HasTransition(from, to) == to \in validTransitions[from]

\* transitionTo, lines 233-236: the target is not an edge; the call throws.
transitionToInvalid(c, to, action) ==
    /\ FreeSlot(c)
    /\ ~HasTransition(currentState, to)
    /\ smLast' = [op |-> "invalid", call |-> c]
    /\ UNCHANGED <<currentState, stateHistory, merkleTree, loggerLogs,
                   execution_logs, now, calls, proofLog, overlapped>>
    /\ UNCHANGED swVars

\* transitionTo, lines 233-247: the proof is generated, the transition is
\* logged and the insert is issued; the call suspends at `await`.
transitionToBegin(c, to, action, t2) ==
    /\ FreeSlot(c)
    /\ HasTransition(currentState, to)
    /\ LET st == [from |-> currentState, to |-> to, action |-> action,
                  params |-> NullParams]
           g == generateProof(st, now, t2)
       IN /\ stateHistory' = g.history
          /\ merkleTree' = g.tree
          /\ proofLog' = Append(proofLog, g.proof)
          /\ loggerLogs' = Append(loggerLogs,
                [from |-> currentState, to |-> to, action |-> action,
                 signature |-> g.proof.signature])
          /\ calls' = [calls EXCEPT ![c] =
                [pc |-> "broadcast", from |-> currentState, to |-> to,
                 action |-> action, proof |-> g.proof]]
          /\ smLast' = [op |-> "begin", call |-> c]
    /\ now' = t2
    /\ overlapped' = (overlapped \/ \E d \in CallIds : calls[d] # Idle)
    /\ UNCHANGED <<currentState, execution_logs>>
    /\ UNCHANGED swVars

\* Mutant of transitionToCommit: broadcast is not awaited, so the call
\* returns while its insert is still in flight.
transitionToCommitUnawaited(c) ==
    /\ calls[c].pc = "broadcast"
    /\ currentState' = calls[c].to
    /\ calls' = [calls EXCEPT ![c] = Idle]
    /\ smLast' = [op |-> "ok", call |-> c]
    /\ UNCHANGED <<stateHistory, merkleTree, loggerLogs, now, proofLog,
                   overlapped, execution_logs>>
    /\ UNCHANGED swVars

\* transitionTo, lines 247-257: the insert succeeded; the state advances and
\* the proof is returned.
transitionToCommit(c) ==
    /\ calls[c].pc = "broadcast"
    /\ execution_logs' = Append(execution_logs,
            [from_state |-> calls[c].from, to_state |-> calls[c].to,
             action |-> calls[c].action, proof |-> calls[c].proof])
    /\ currentState' = calls[c].to
    /\ calls' = [calls EXCEPT ![c] = Idle]
    /\ smLast' = [op |-> "ok", call |-> c]
    /\ UNCHANGED <<stateHistory, merkleTree, loggerLogs, now, proofLog,
                   overlapped>>
    /\ UNCHANGED swVars

\* Mutant of transitionToPersistFail: the state advances although the insert
\* rejected.
transitionToPersistFailAdvance(c) ==
    /\ calls[c].pc = "broadcast"
    /\ calls' = [calls EXCEPT ![c] = Idle]
    /\ currentState' = calls[c].to
    /\ smLast' = [op |-> "persistFail", call |-> c]
    /\ UNCHANGED <<stateHistory, merkleTree, loggerLogs, execution_logs, now,
                   proofLog, overlapped>>
    /\ UNCHANGED swVars

\* transitionTo, line 247: the insert rejected; the rejection propagates out
\* of the call and line 256 is never reached.
transitionToPersistFail(c) ==
    /\ calls[c].pc = "broadcast"
    /\ calls' = [calls EXCEPT ![c] = Idle]
    /\ smLast' = [op |-> "persistFail", call |-> c]
    /\ UNCHANGED <<currentState, stateHistory, merkleTree, loggerLogs,
                   execution_logs, now, proofLog, overlapped>>
    /\ UNCHANGED swVars

\* Time passes.
Tick ==
    /\ now < MaxClock
    /\ now' = now + 1
    /\ UNCHANGED <<currentState, stateHistory, merkleTree, loggerLogs,
                   execution_logs, calls, proofLog, overlapped, smLast>>
    /\ UNCHANGED swVars

Clock == 0..MaxClock

\* Date.now() read a second time: the clock has not moved or has moved on.
LaterReads == {t \in Clock : t >= now /\ t <= now + 1}

\* AgentStateMachine.getAvailableTransitions in state s
getAvailableTransitions(s) == validTransitions[s]

\* Callers that may overlap their transitionTo calls.
NextSM ==
    \/ \E c \in CallIds, to \in AgentStates, action \in Actions :
            transitionToInvalid(c, to, action)
    \/ \E c \in CallIds, to \in AgentStates, action \in Actions :
       \E t2 \in LaterReads :
            /\ Len(stateHistory) < MaxHistory
            /\ transitionToBegin(c, to, action, t2)
    \/ \E c \in CallIds : transitionToCommit(c)
    \/ \E c \in CallIds : transitionToPersistFail(c)
    \/ Tick

\* A caller that awaits each transitionTo before the next one.
NextSeq ==
    \/ \E to \in AgentStates, action \in Actions :
            transitionToInvalid(1, to, action)
    \/ \E to \in AgentStates, action \in Actions :
       \E t2 \in LaterReads :
            /\ Len(stateHistory) < MaxDepth
            /\ transitionToBegin(1, to, action, t2)
    \/ transitionToCommit(1)
    \/ transitionToPersistFail(1)
    \/ Tick

(***************************************************************************)
(* Swarm runtime: SwarmManager, AgentMailbox, SwarmPersistence, worker.ts  *)
(*                                                                         *)
(* Every `await` on the persistence store is a step boundary: the write    *)
(* takes effect in the step in which the awaiting code resumes.  Events of *)
(* a worker thread (message, error, exit) are delivered to the supervisor  *)
(* one at a time; the messages a thread posted are delivered before its    *)
(* exit event.                                                             *)
(***************************************************************************)
Agents == {"a1", "a2"}
NoAgent == "none"
NoWorker == 0
WorkerIds == 1..MaxWorkers
IdSuffixes == 1..MaxSuffix
MessageTypes == {"chat", "command", "system"}
NoMessageId == <<NoAgent, 0>>

\* A Worker object that `new Worker` has not created yet.
Unborn ==
    [agent |-> NoAgent, phase |-> "unborn", toParent |-> <<>>,
     inbox |-> <<>>, errEv |-> "none", exitEv |-> "none", exitCode |-> 0,
     once |-> FALSE, timer |-> "none", call |-> "none", runWrite |-> FALSE]

\* No row / a row of swarm_agents; of its columns the status is kept.
NoRow == [status |-> "none"]

\* The step taken last: a step of a kind no property refers to, or the kind
\* and agent of the step; for a step that ran stopAgent, whether the agent
\* had a tracked worker and whether it was active when stopAgent ran.
Other == [op |-> "other", agent |-> NoAgent, tracked |-> FALSE,
          active |-> FALSE]

Did(op, agentId) == [Other EXCEPT !.op = op, !.agent = agentId]

DidStop(op, agentId) ==
    [op |-> op, agent |-> agentId, tracked |-> workers[agentId] # NoWorker,
     active |-> agentId \in activeAgents]

\* initialize() has not been called / shutdown() has not been called
\* (caught: the outer catch block of the call has run)
NotBooted ==
    [pc |-> "idle", order |-> <<>>, queue |-> <<>>, w |-> NoWorker,
     seen |-> [a \in Agents |-> "none"], starts |-> [a \in Agents |-> 0],
     caught |-> FALSE]

NotDown ==
    [pc |-> "idle", cur |-> NoAgent, visited |-> {}, was |-> {},
     tracked |-> {}, caught |-> FALSE]

\* The supervisor, its mailbox and the threads after `new SwarmManager()`
NoCheck ==
    [key |-> "none", signed |-> EmptyString, signature |-> EmptyString,
     hash |-> EmptyString, presented |-> EmptyString,
     publicKey |-> publicKeyOf("none"), checked |-> FALSE,
     verified |-> FALSE]

InitSupervisor ==
    /\ workers = [a \in Agents |-> NoWorker]
    /\ activeAgents = {}
    /\ messageQueue = {}
    /\ listeners = [a \in Agents |-> <<>>]
    /\ responseCallbacks = <<>>
    /\ sendLog = <<>>
    /\ wk = [w \in WorkerIds |-> Unborn]
    /\ pendUpsert = [a \in Agents |-> 0]
    /\ pendAlready = [a \in Agents |-> 0]
    /\ swarm_logs = {}
    /\ ends = 0
    /\ swLast = Other
    /\ boot = NotBooted
    /\ down = NotDown
    /\ sigCheck = NoCheck

\* A supervisor made over an empty store
InitSwarm ==
    /\ InitSupervisor
    /\ swarm_agents = [a \in Agents |-> NoRow]

\* SwarmPersistence.updateAgentStatus: UPDATE ... WHERE id; no row, no effect.
updateAgentStatus(rows, agentId, status, error) ==
    IF rows[agentId].status = "none" THEN rows
    ELSE [rows EXCEPT ![agentId] = [status |-> status]]

\* SwarmPersistence.upsertAgentState as startAgent calls it: the row is made
\* or its status overwritten; last_error is not among the columns written.
upsertAgentState(rows, agentId, status) ==
    [rows EXCEPT ![agentId] = [status |-> status]]

\* SwarmPersistence.getActiveAgents
getActiveAgents ==
    {a \in Agents : swarm_agents[a].status \in {"starting", "running"}}

\* SwarmPersistence.addLog; the table is kept as the set of its distinct
\* (agentId, type, message) entries.
addLog(logs, agentId, type, message) ==
    logs \cup {[agentId |-> agentId, type |-> type, message |-> message]}

\* Mutant of isAgentActive: an agent counts as active once it has a worker.
isAgentActiveTracked(agentId) == workers[agentId] # NoWorker

\* SwarmManager.isAgentActive
isAgentActive(agentId) == agentId \in activeAgents

\* SwarmManager.getActiveAgentCount
getActiveAgentCount == Cardinality(activeAgents)

\* Worker.terminate: a running thread is stopped and will report its exit;
\* on a thread that has already ended it does nothing.
terminate(rec) ==
    IF rec.phase \in {"init", "ready"}
    THEN [rec EXCEPT !.phase = "dead", !.inbox = <<>>,
                     !.exitEv = "pending", !.exitCode = 1]
    ELSE rec

\* Mutant of stopAgent: the mailbox is left registered.
stopAgentKeepsMailbox(agentId, wk0) ==
    IF workers[agentId] # NoWorker
    THEN /\ wk' = [wk0 EXCEPT ![workers[agentId]] = terminate(@)]
         /\ workers' = [workers EXCEPT ![agentId] = NoWorker]
         /\ activeAgents' = activeAgents \ {agentId}
         /\ UNCHANGED <<messageQueue, listeners>>
    ELSE /\ wk' = wk0
         /\ UNCHANGED <<workers, messageQueue, listeners, activeAgents>>

\* SwarmManager.stopAgent.  It has no await, so it runs to its end within the
\* step that calls it; wk0 is the worker table as that step has left it.
stopAgent(agentId, wk0) ==
    IF workers[agentId] # NoWorker
    THEN /\ wk' = [wk0 EXCEPT ![workers[agentId]] = terminate(@)]
         /\ workers' = [workers EXCEPT ![agentId] = NoWorker]
         /\ messageQueue' = messageQueue \ {agentId}
         /\ listeners' = [listeners EXCEPT ![agentId] = <<>>]
         /\ activeAgents' = activeAgents \ {agentId}
    ELSE /\ wk' = wk0
         /\ UNCHANGED <<workers, messageQueue, listeners, activeAgents>>

\* startAgent calls that have passed line 88 and not yet created their Worker
Reserved ==
    Cardinality({p \in Agents \X (1..MaxPending) : p[2] <= pendUpsert[p[1]]})

UnbornIds == {w \in WorkerIds : wk[w].phase = "unborn"}

\* startAgent, lines 86-96, up to its first await: the agent is active and the
\* call goes to the catch block, or the upsert is issued.
StartAgent(a) ==
    /\ pendUpsert[a] + pendAlready[a] < MaxPending
    /\ IF isAgentActive(a)
       THEN /\ pendAlready' = [pendAlready EXCEPT ![a] = @ + 1]
            /\ UNCHANGED pendUpsert
       ELSE /\ Cardinality(UnbornIds) > Reserved
            /\ pendUpsert' = [pendUpsert EXCEPT ![a] = @ + 1]
            /\ UNCHANGED pendAlready
    /\ swLast' = Other
    /\ UNCHANGED <<workers, activeAgents, messageQueue, listeners,
                   responseCallbacks, sendLog, wk, swarm_agents, swarm_logs>>
    /\ UNCHANGED <<ends, smVars, runVars, sigVars>>

\* startAgent, lines 155-158 after line 88 threw: the status is set to error
\* and 'Agent already running' is rethrown.
StartAgentAlreadyRunning(a) ==
    /\ pendAlready[a] > 0
    /\ pendAlready' = [pendAlready EXCEPT ![a] = @ - 1]
    /\ swarm_agents' = updateAgentStatus(swarm_agents, a, "error",
                                         "Agent already running")
    /\ swLast' = Did("startAlready", a)
    /\ UNCHANGED <<workers, activeAgents, messageQueue, listeners,
                   responseCallbacks, sendLog, wk, pendUpsert, swarm_logs>>
    /\ UNCHANGED <<ends, smVars, runVars, sigVars>>

\* Mutant of StartAgentSpawn: the agent is put in the active set when its
\* worker is registered, not when ready arrives.
StartAgentSpawnActivates(a, w) ==
    /\ pendUpsert[a] > 0
    /\ w \in UnbornIds
    /\ \A v \in UnbornIds : w <= v
    /\ pendUpsert' = [pendUpsert EXCEPT ![a] = @ - 1]
    /\ swarm_agents' = upsertAgentState(swarm_agents, a, "starting")
    /\ wk' = [wk EXCEPT ![w] =
                [Unborn EXCEPT !.agent = a, !.phase = "init", !.once = TRUE,
                               !.timer = "armed", !.call = "await"]]
    /\ messageQueue' = messageQueue \cup {a}
    /\ listeners' = [listeners EXCEPT ![a] = Append(@, w)]
    /\ workers' = [workers EXCEPT ![a] = w]
    /\ activeAgents' = activeAgents \cup {a}
    /\ swLast' = Other
    /\ UNCHANGED <<responseCallbacks, sendLog, pendAlready, swarm_logs>>
    /\ UNCHANGED <<ends, smVars, runVars, sigVars>>

\* startAgent, lines 90-154 after the upsert: status starting is stored, the
\* Worker is created, its handlers, the mailbox queue and listener and the
\* workers entry are set, the timer is armed and the call awaits ready.
StartAgentSpawn(a, w) ==
    /\ pendUpsert[a] > 0
    /\ w \in UnbornIds
    /\ \A v \in UnbornIds : w <= v
    /\ pendUpsert' = [pendUpsert EXCEPT ![a] = @ - 1]
    /\ swarm_agents' = upsertAgentState(swarm_agents, a, "starting")
    /\ wk' = [wk EXCEPT ![w] =
                [Unborn EXCEPT !.agent = a, !.phase = "init", !.once = TRUE,
                               !.timer = "armed", !.call = "await"]]
    /\ messageQueue' = messageQueue \cup {a}
    /\ listeners' = [listeners EXCEPT ![a] = Append(@, w)]
    /\ workers' = [workers EXCEPT ![a] = w]
    /\ swLast' = Other
    /\ UNCHANGED <<activeAgents, responseCallbacks, sendLog, pendAlready,
                   swarm_logs>>
    /\ UNCHANGED <<ends, smVars, runVars, sigVars>>

\* SwarmManager.stopAgent called from the API layer.
StopAgent(a) ==
    /\ stopAgent(a, wk)
    /\ swLast' = DidStop("stop", a)
    /\ UNCHANGED <<responseCallbacks, sendLog, pendUpsert, pendAlready,
                   swarm_agents, swarm_logs>>
    /\ UNCHANGED <<ends, smVars, runVars, sigVars>>

\* Worker.postMessage: a thread that has ended drops the message.
\* Mutant of postMessage: the message is put in front of the messages the
\* thread has not taken yet.
postMessageInFront(rec, msg) ==
    IF rec.phase \in {"init", "ready"}
    THEN [rec EXCEPT !.inbox = <<msg>> \o @]
    ELSE rec

postMessage(rec, msg) ==
    IF rec.phase \in {"init", "ready"}
    THEN [rec EXCEPT !.inbox = Append(@, msg)]
    ELSE rec

\* emitter.emit(`message:${agentId}`, msg): every listener registered for the
\* agent posts the message to the worker it was created for.
emit(agentId, msg) ==
    [w \in WorkerIds |->
        IF \E i \in 1..Len(listeners[agentId]) : listeners[agentId][i] = w
        THEN postMessage(wk[w], msg)
        ELSE wk[w]]

\* Map.set / Map.delete on responseCallbacks
MapSet(map, key, value) ==
    [x \in DOMAIN map \cup {key} |-> IF x = key THEN value ELSE map[x]]

MapDelete(map, key) == [x \in DOMAIN map \ {key} |-> map[x]]

\* SwarmManager.sendMessage on an agent that is not active: it throws.
SendMessageNotActive(a) ==
    /\ ~isAgentActive(a)
    /\ swLast' = Did("sendReject", a)
    /\ UNCHANGED <<workers, activeAgents, messageQueue, listeners,
                   responseCallbacks, sendLog, wk, pendUpsert, pendAlready,
                   swarm_agents, swarm_logs>>
    /\ UNCHANGED <<ends, smVars, runVars, sigVars>>

\* SwarmManager.sendMessage on an active agent, and AgentMailbox.sendMessage:
\* a message id is made, the resolver is stored under it and the message is
\* emitted.  k stands for the Date.now() and Math.random() parts of the id.
SendMessage(a, type, k) ==
    /\ isAgentActive(a)
    /\ LET messageId == <<a, k>>
       IN /\ sendLog' = Append(sendLog,
                [agent |-> a, messageId |-> messageId, resolved |-> 0])
          /\ responseCallbacks' =
                MapSet(responseCallbacks, messageId, Len(sendLog) + 1)
          /\ wk' = emit(a, [type |-> type, messageId |-> messageId])
    /\ swLast' = Did("send", a)
    /\ UNCHANGED <<workers, activeAgents, messageQueue, listeners, pendUpsert,
                   pendAlready, swarm_agents, swarm_logs>>
    /\ UNCHANGED <<ends, smVars, runVars, sigVars>>

Ready == [type |-> "ready", messageId |-> NoMessageId, success |-> TRUE]
InitError == [type |-> "error", messageId |-> NoMessageId, success |-> FALSE]

\* worker.ts, lines 24-62: the agent initialised, the listener is bound and
\* ready is posted.
WorkerInitOk(w) ==
    /\ wk[w].phase = "init"
    /\ wk' = [wk EXCEPT ![w].phase = "ready",
                        ![w].toParent = Append(@, Ready)]
    /\ swLast' = Other
    /\ UNCHANGED <<workers, activeAgents, messageQueue, listeners,
                   responseCallbacks, sendLog, pendUpsert, pendAlready,
                   swarm_agents, swarm_logs>>
    /\ UNCHANGED <<ends, smVars, runVars, sigVars>>

\* worker.ts, lines 64-67: initialisation threw; an error message is posted
\* and the thread exits with code 1.
WorkerInitFail(w) ==
    /\ ends < MaxEnds
    /\ ends' = ends + 1
    /\ wk[w].phase = "init"
    /\ wk' = [wk EXCEPT ![w].phase = "dead", ![w].inbox = <<>>,
                        ![w].toParent = Append(@, InitError),
                        ![w].exitEv = "pending", ![w].exitCode = 1]
    /\ swLast' = Other
    /\ UNCHANGED <<workers, activeAgents, messageQueue, listeners,
                   responseCallbacks, sendLog, pendUpsert, pendAlready,
                   swarm_agents, swarm_logs>>
    /\ UNCHANGED <<smVars, runVars, sigVars>>

\* worker.ts, lines 30-58: one message is taken and its reply posted; chat may
\* throw in processMessage, any type but chat and system is refused.
\* Mutant of WorkerReply: the catch block of the listener posts nothing.
WorkerReplySilentOnError(w, ok) ==
    /\ wk[w].phase = "ready"
    /\ wk[w].inbox # <<>>
    /\ LET m == Head(wk[w].inbox)
           success == IF m.type = "chat" THEN ok ELSE m.type = "system"
       IN /\ m.type # "chat" => ok
          /\ wk' = [wk EXCEPT ![w].inbox = Tail(@),
                              ![w].toParent =
                                  IF success
                                  THEN Append(@,
                                      [type |-> "reply",
                                       messageId |-> m.messageId,
                                       success |-> success])
                                  ELSE @]
    /\ swLast' = Other
    /\ UNCHANGED <<workers, activeAgents, messageQueue, listeners,
                   responseCallbacks, sendLog, pendUpsert, pendAlready,
                   swarm_agents, swarm_logs>>
    /\ UNCHANGED <<ends, smVars, runVars, sigVars>>

WorkerReply(w, ok) ==
    /\ wk[w].phase = "ready"
    /\ wk[w].inbox # <<>>
    /\ LET m == Head(wk[w].inbox)
           success == IF m.type = "chat" THEN ok ELSE m.type = "system"
       IN /\ m.type # "chat" => ok
          /\ wk' = [wk EXCEPT ![w].inbox = Tail(@),
                              ![w].toParent = Append(@,
                                  [type |-> "reply", messageId |-> m.messageId,
                                   success |-> success])]
    /\ swLast' = Other
    /\ UNCHANGED <<workers, activeAgents, messageQueue, listeners,
                   responseCallbacks, sendLog, pendUpsert, pendAlready,
                   swarm_agents, swarm_logs>>
    /\ UNCHANGED <<ends, smVars, runVars, sigVars>>

\* The thread ends by itself: with an uncaught error (an error event, then
\* exit with code 1) or with the given exit code.
WorkerEnds(w, crashed, code) ==
    /\ ends < MaxEnds
    /\ ends' = ends + 1
    /\ wk[w].phase \in {"init", "ready"}
    /\ crashed => code = 1
    /\ wk' = [wk EXCEPT ![w].phase = "dead", ![w].inbox = <<>>,
                        ![w].errEv = IF crashed THEN "pending" ELSE "none",
                        ![w].exitEv = "pending", ![w].exitCode = code]
    /\ swLast' = Other
    /\ UNCHANGED <<workers, activeAgents, messageQueue, listeners,
                   responseCallbacks, sendLog, pendUpsert, pendAlready,
                   swarm_agents, swarm_logs>>
    /\ UNCHANGED <<smVars, runVars, sigVars>>

\* Mutant of sendResponseCallbacks: the entry is not deleted.
sendResponseCallbacksKeepsEntry(messageId) == responseCallbacks

\* AgentMailbox.sendResponse: the entry of the id, if any, is deleted ...
sendResponseCallbacks(messageId) ==
    IF messageId \in DOMAIN responseCallbacks
    THEN MapDelete(responseCallbacks, messageId)
    ELSE responseCallbacks

\* ... and the resolver stored under the id, if any, is called.
sendResponseLog(messageId) ==
    IF messageId \in DOMAIN responseCallbacks
    THEN [sendLog EXCEPT ![responseCallbacks[messageId]].resolved = @ + 1]
    ELSE sendLog

\* Mutant of OnMessage: the once handler resolves the startup promise on
\* whatever message comes first.
OnMessageResolvesOnAny(w) ==
    /\ wk[w].toParent # <<>>
    /\ LET m == Head(wk[w].toParent)
           a == wk[w].agent
           isReady == m.type = "ready"
           resolves == wk[w].once /\ wk[w].call = "await"
       IN /\ activeAgents' = IF isReady THEN activeAgents \cup {a}
                             ELSE activeAgents
          /\ wk' = [wk EXCEPT
                ![w].toParent = Tail(@),
                ![w].runWrite = IF isReady THEN TRUE ELSE @,
                ![w].once = FALSE,
                ![w].timer = IF wk[w].once /\ @ = "armed"
                             THEN "cleared" ELSE @,
                ![w].call = IF resolves THEN "resolved" ELSE @]
          /\ responseCallbacks' =
                IF ~isReady /\ m.messageId # NoMessageId
                THEN sendResponseCallbacks(m.messageId)
                ELSE responseCallbacks
          /\ sendLog' =
                IF ~isReady /\ m.messageId # NoMessageId
                THEN sendResponseLog(m.messageId)
                ELSE sendLog
          /\ swLast' = IF resolves THEN Did("startOk", a) ELSE Other
    /\ UNCHANGED <<workers, messageQueue, listeners, pendUpsert, pendAlready,
                   swarm_agents, swarm_logs>>
    /\ UNCHANGED <<ends, smVars, runVars, sigVars>>

\* The 'message' handlers of startAgent, lines 107-114 and 148-153, run on the
\* next message of worker w: ready makes the agent active and issues the
\* running write; a message with a messageId goes to the mailbox; the once
\* handler, if still registered, is removed and on ready clears the timer and
\* resolves the startup promise.
OnMessage(w) ==
    /\ wk[w].toParent # <<>>
    /\ LET m == Head(wk[w].toParent)
           a == wk[w].agent
           isReady == m.type = "ready"
           resolves == wk[w].once /\ isReady /\ wk[w].call = "await"
       IN /\ activeAgents' = IF isReady THEN activeAgents \cup {a}
                             ELSE activeAgents
          /\ wk' = [wk EXCEPT
                ![w].toParent = Tail(@),
                ![w].runWrite = IF isReady THEN TRUE ELSE @,
                ![w].once = FALSE,
                ![w].timer = IF wk[w].once /\ isReady /\ @ = "armed"
                             THEN "cleared" ELSE @,
                ![w].call = IF resolves THEN "resolved" ELSE @]
          /\ responseCallbacks' =
                IF ~isReady /\ m.messageId # NoMessageId
                THEN sendResponseCallbacks(m.messageId)
                ELSE responseCallbacks
          /\ sendLog' =
                IF ~isReady /\ m.messageId # NoMessageId
                THEN sendResponseLog(m.messageId)
                ELSE sendLog
          /\ swLast' = IF resolves THEN Did("startOk", a) ELSE Other
    /\ UNCHANGED <<workers, messageQueue, listeners, pendUpsert, pendAlready,
                   swarm_agents, swarm_logs>>
    /\ UNCHANGED <<ends, smVars, runVars, sigVars>>

\* Line 110 after its await: status running is stored.
ReadyPersist(w) ==
    /\ wk[w].runWrite
    /\ wk' = [wk EXCEPT ![w].runWrite = FALSE]
    /\ swarm_agents' = updateAgentStatus(swarm_agents, wk[w].agent,
                                         "running", "null")
    /\ swLast' = Other
    /\ UNCHANGED <<workers, activeAgents, messageQueue, listeners,
                   responseCallbacks, sendLog, pendUpsert, pendAlready,
                   swarm_logs>>
    /\ UNCHANGED <<ends, smVars, runVars, sigVars>>

\* Lines 143-144: the 30 s timer fires and its callback issues the error write.
StartupTimeout(w) ==
    /\ wk[w].timer = "armed"
    /\ Cardinality({v \in WorkerIds : wk[v].timer \in {"writing", "done"}})
          < MaxTimeouts
    /\ wk' = [wk EXCEPT ![w].timer = "writing"]
    /\ swLast' = Other
    /\ UNCHANGED <<workers, activeAgents, messageQueue, listeners,
                   responseCallbacks, sendLog, pendUpsert, pendAlready,
                   swarm_agents, swarm_logs>>
    /\ UNCHANGED <<ends, smVars, runVars, sigVars>>

\* Lines 144-145 after the await: status error is stored and the startup
\* promise is rejected if it is still pending; startAgent enters its catch.
StartupTimeoutReject(w) ==
    /\ wk[w].timer = "writing"
    /\ wk' = [wk EXCEPT ![w].timer = "done",
                        ![w].call = IF @ = "await" THEN "catch" ELSE @]
    /\ swarm_agents' = updateAgentStatus(swarm_agents, wk[w].agent,
                                         "error", "Startup timeout")
    /\ swLast' = Other
    /\ UNCHANGED <<workers, activeAgents, messageQueue, listeners,
                   responseCallbacks, sendLog, pendUpsert, pendAlready,
                   swarm_logs>>
    /\ UNCHANGED <<ends, smVars, runVars, sigVars>>

\* Lines 155-158 after the startup promise rejected: status error is stored
\* again and 'Startup timeout' is rethrown to the caller.
StartAgentTimedOut(w) ==
    /\ wk[w].call = "catch"
    /\ wk' = [wk EXCEPT ![w].call = "rejected"]
    /\ swarm_agents' = updateAgentStatus(swarm_agents, wk[w].agent,
                                         "error", "Startup timeout")
    /\ swLast' = Did("startTimeout", wk[w].agent)
    /\ UNCHANGED <<workers, activeAgents, messageQueue, listeners,
                   responseCallbacks, sendLog, pendUpsert, pendAlready,
                   swarm_logs>>
    /\ UNCHANGED <<ends, smVars, runVars, sigVars>>

\* The 'error' handler, lines 116-125, on the error event of worker w.  Its
\* first part changes nothing, so the handler is taken as one step at the time
\* its log write completes: the entry is stored and the agent is stopped.
\* Mutant of OnError: the handler stops every tracked agent.
OnErrorStopsEveryAgent(w) ==
    /\ wk[w].errEv = "pending"
    /\ swarm_logs' = addLog(swarm_logs, wk[w].agent, "error",
                            "Worker thread crashed")
    /\ wk' = [v \in WorkerIds |->
                IF \E b \in Agents : workers[b] = v
                THEN terminate([wk[v] EXCEPT !.errEv =
                                    IF v = w THEN "done" ELSE @])
                ELSE [wk[v] EXCEPT !.errEv = IF v = w THEN "done" ELSE @]]
    /\ workers' = [b \in Agents |-> NoWorker]
    /\ messageQueue' = {}
    /\ listeners' = [b \in Agents |-> <<>>]
    /\ activeAgents' = {}
    /\ swLast' = DidStop("errorStop", wk[w].agent)
    /\ UNCHANGED <<responseCallbacks, sendLog, pendUpsert, pendAlready,
                   swarm_agents>>
    /\ UNCHANGED <<ends, smVars, runVars, sigVars>>

OnError(w) ==
    /\ wk[w].errEv = "pending"
    /\ swarm_logs' = addLog(swarm_logs, wk[w].agent, "error",
                            "Worker thread crashed")
    /\ stopAgent(wk[w].agent, [wk EXCEPT ![w].errEv = "done"])
    /\ swLast' = DidStop("errorStop", wk[w].agent)
    /\ UNCHANGED <<responseCallbacks, sendLog, pendUpsert, pendAlready,
                   swarm_agents>>
    /\ UNCHANGED <<ends, smVars, runVars, sigVars>>

\* Mutant of OnExit: the handler stops the agent only after a clean exit.
OnExitStopsOnCleanExit(w) ==
    /\ wk[w].exitEv = "pending"
    /\ wk[w].toParent = <<>>
    /\ IF wk[w].exitCode # 0
       THEN /\ swarm_logs' = addLog(swarm_logs, wk[w].agent, "warning",
                                    "Exited with code 1")
            /\ wk' = [wk EXCEPT ![w].exitEv = "done"]
            /\ UNCHANGED <<workers, messageQueue, listeners, activeAgents>>
       ELSE /\ swarm_logs' = swarm_logs
            /\ stopAgent(wk[w].agent, [wk EXCEPT ![w].exitEv = "done"])
    /\ swLast' = DidStop("exitStop", wk[w].agent)
    /\ UNCHANGED <<responseCallbacks, sendLog, pendUpsert, pendAlready,
                   swarm_agents>>
    /\ UNCHANGED <<ends, smVars, runVars, sigVars>>

\* The 'exit' handler, lines 127-136, on the exit event of worker w, which
\* arrives after the messages the thread posted.  With a non-zero code the
\* warning is stored first (the step is taken when that write completes);
\* then the agent is stopped.
OnExit(w) ==
    /\ wk[w].exitEv = "pending"
    /\ wk[w].toParent = <<>>
    /\ swarm_logs' = IF wk[w].exitCode # 0
                     THEN addLog(swarm_logs, wk[w].agent, "warning",
                                 "Exited with code 1")
                     ELSE swarm_logs
    /\ stopAgent(wk[w].agent, [wk EXCEPT ![w].exitEv = "done"])
    /\ swLast' = DidStop("exitStop", wk[w].agent)
    /\ UNCHANGED <<responseCallbacks, sendLog, pendUpsert, pendAlready,
                   swarm_agents>>
    /\ UNCHANGED <<ends, smVars, runVars, sigVars>>

\* The 'error' handler when the insert of its log entry rejects: the await of
\* line 118 throws, the handler ends there and line 124 is not reached.
OnErrorLogFails(w) ==
    /\ wk[w].errEv = "pending"
    /\ wk' = [wk EXCEPT ![w].errEv = "done"]
    /\ swLast' = Did("errorLogFail", wk[w].agent)
    /\ UNCHANGED <<workers, activeAgents, messageQueue, listeners,
                   responseCallbacks, sendLog, pendUpsert, pendAlready,
                   swarm_agents, swarm_logs>>
    /\ UNCHANGED <<ends, smVars, runVars, sigVars>>

\* The 'exit' handler for a non-zero code when the insert of its log entry
\* rejects: the await of line 129 throws and line 135 is not reached.
OnExitLogFails(w) ==
    /\ wk[w].exitEv = "pending"
    /\ wk[w].toParent = <<>>
    /\ wk[w].exitCode # 0
    /\ wk' = [wk EXCEPT ![w].exitEv = "done"]
    /\ swLast' = Did("exitLogFail", wk[w].agent)
    /\ UNCHANGED <<workers, activeAgents, messageQueue, listeners,
                   responseCallbacks, sendLog, pendUpsert, pendAlready,
                   swarm_agents, swarm_logs>>
    /\ UNCHANGED <<ends, smVars, runVars, sigVars>>

(***************************************************************************)
(* SwarmManager.initialize, lines 57-84                                    *)
(***************************************************************************)

\* The statuses a row left in swarm_agents by an earlier run may have
AgentStatus == {"starting", "running", "stopping", "stopped", "error"}

\* The orders in which a query may return the rows of a set of agents
Orders(S) ==
    {q \in [1..Cardinality(S) -> S] :
        \A i, j \in 1..Cardinality(S) : q[i] = q[j] => i = j}

\* What getAgentById does for a record: it returns the agent, returns null
\* or throws.
Lookups == {"found", "missing", "threw"}

\* The for loop moves to the record after the one in hand.
NextRecord(b) ==
    [b EXCEPT !.queue = Tail(@),
              !.pc = IF Tail(b.queue) = <<>> THEN "done" ELSE "lookup",
              !.w = NoWorker]

\* Lines 58-63: getActiveAgents has returned its rows in some order; the loop
\* takes the first record and issues its lookup.
Initialize(order) ==
    /\ boot.pc = "idle"
    /\ order \in Orders(getActiveAgents)
    /\ boot' = [boot EXCEPT !.order = order, !.queue = order,
                            !.pc = IF order = <<>> THEN "done" ELSE "lookup"]
    /\ swLast' = Other
    /\ UNCHANGED <<workers, activeAgents, messageQueue, listeners,
                   responseCallbacks, sendLog, wk, pendUpsert, pendAlready,
                   swarm_agents, swarm_logs>>
    /\ UNCHANGED <<ends, smVars, down, sigVars>>

\* Lines 63-65 and 72-73: the lookup of the record in hand has settled.  With
\* an agent found startAgent is called and runs to its first await (lines
\* 86-96); with null the record is skipped; a throw goes to the catch block,
\* which issues the error log.
InitializeLookup(res) ==
    /\ boot.pc = "lookup"
    /\ LET a == Head(boot.queue)
       IN CASE res = "found" ->
                 /\ IF isAgentActive(a)
                    THEN /\ pendAlready' = [pendAlready EXCEPT ![a] = @ + 1]
                         /\ UNCHANGED pendUpsert
                         /\ boot' = [boot EXCEPT !.pc = "start",
                                        !.w = NoWorker,
                                        !.seen[a] = "found",
                                        !.starts[a] = @ + 1]
                    ELSE /\ UnbornIds # {}
                         /\ pendUpsert' = [pendUpsert EXCEPT ![a] = @ + 1]
                         /\ UNCHANGED pendAlready
                         /\ boot' = [boot EXCEPT !.pc = "start",
                                        !.w = CHOOSE w \in UnbornIds :
                                                \A v \in UnbornIds : w <= v,
                                        !.seen[a] = "found",
                                        !.starts[a] = @ + 1]
            [] res = "missing" ->
                 /\ boot' = [NextRecord(boot) EXCEPT !.seen[a] = "missing"]
                 /\ UNCHANGED <<pendUpsert, pendAlready>>
            [] res = "threw" ->
                 /\ boot' = [boot EXCEPT !.pc = "logError",
                                         !.seen[a] = "threw"]
                 /\ UNCHANGED <<pendUpsert, pendAlready>>
    /\ swLast' = Other
    /\ UNCHANGED <<workers, activeAgents, messageQueue, listeners,
                   responseCallbacks, sendLog, wk, swarm_agents, swarm_logs>>
    /\ UNCHANGED <<ends, smVars, down, sigVars>>

\* The startAgent call made for the record in hand has resolved / rejected.
StartResolved(b) == b.w # NoWorker /\ wk[b.w].call = "resolved"

StartRejected(b) ==
    \/ b.w # NoWorker /\ wk[b.w].call = "rejected"
    \/ b.w = NoWorker /\ pendAlready[Head(b.queue)] = 0

\* Lines 65-70 and 72-78: `await this.startAgent(agent)` has settled; the
\* info log is issued, or the catch block issues the error log.
InitializeStartSettled ==
    /\ boot.pc = "start"
    /\ LET a == Head(boot.queue)
       IN \/ /\ StartResolved(boot)
             /\ boot' = [boot EXCEPT !.pc = "logInfo", !.seen[a] = "started"]
          \/ /\ StartRejected(boot)
             /\ boot' = [boot EXCEPT !.pc = "logError",
                                     !.seen[a] = "rejected"]
    /\ swLast' = Other
    /\ UNCHANGED <<workers, activeAgents, messageQueue, listeners,
                   responseCallbacks, sendLog, wk, pendUpsert, pendAlready,
                   swarm_agents, swarm_logs>>
    /\ UNCHANGED <<ends, smVars, down, sigVars>>

Restored(a) ==
    [agentId |-> a, type |-> "info", message |-> "Agent restored after reboot"]

RelaunchFailed(a) ==
    [agentId |-> a, type |-> "error", message |-> "Failed to relaunch agent"]

\* Mutant of InitializeLogged: the catch block is outside the loop, so that
\* the loop ends with the first failure.
InitializeLoggedEndsLoop ==
    /\ boot.pc \in {"logInfo", "logError"}
    /\ LET a == Head(boot.queue)
           entry == IF boot.pc = "logInfo" THEN Restored(a)
                    ELSE RelaunchFailed(a)
       IN /\ swarm_logs' = addLog(swarm_logs, a, entry.type, entry.message)
          /\ boot' = IF boot.pc = "logInfo" THEN NextRecord(boot)
                     ELSE [boot EXCEPT !.pc = "done", !.w = NoWorker]
    /\ swLast' = Other
    /\ UNCHANGED <<workers, activeAgents, messageQueue, listeners,
                   responseCallbacks, sendLog, wk, pendUpsert, pendAlready,
                   swarm_agents>>
    /\ UNCHANGED <<ends, smVars, down, sigVars>>

\* Lines 66-70 and 73-78 after their await: the log entry is stored and the
\* loop moves on.
InitializeLogged ==
    /\ boot.pc \in {"logInfo", "logError"}
    /\ LET a == Head(boot.queue)
           entry == IF boot.pc = "logInfo" THEN Restored(a)
                    ELSE RelaunchFailed(a)
       IN /\ swarm_logs' = addLog(swarm_logs, a, entry.type, entry.message)
          /\ boot' = NextRecord(boot)
    /\ swLast' = Other
    /\ UNCHANGED <<workers, activeAgents, messageQueue, listeners,
                   responseCallbacks, sendLog, wk, pendUpsert, pendAlready,
                   swarm_agents>>
    /\ UNCHANGED <<ends, smVars, down, sigVars>>

\* Line 59 when the query of getActiveAgents rejects: the outer catch block
\* (lines 81-83) reports the error and initialize() returns.
InitializeQueryFails ==
    /\ boot.pc = "idle"
    /\ boot' = [boot EXCEPT !.pc = "done", !.caught = TRUE]
    /\ swLast' = Other
    /\ UNCHANGED <<workers, activeAgents, messageQueue, listeners,
                   responseCallbacks, sendLog, wk, pendUpsert, pendAlready,
                   swarm_agents, swarm_logs>>
    /\ UNCHANGED <<ends, smVars, down, sigVars>>

\* Mutant of InitializeLogFails: initialize has no outer try, so a log insert
\* that rejects inside the inner catch block rejects initialize().
InitializeLogFailsUncaught ==
    /\ boot.pc \in {"logInfo", "logError"}
    /\ boot' = IF boot.pc = "logInfo"
               THEN [boot EXCEPT !.pc = "logError"]
               ELSE [boot EXCEPT !.pc = "rejected"]
    /\ swLast' = Other
    /\ UNCHANGED <<workers, activeAgents, messageQueue, listeners,
                   responseCallbacks, sendLog, wk, pendUpsert, pendAlready,
                   swarm_agents, swarm_logs>>
    /\ UNCHANGED <<ends, smVars, down, sigVars>>

\* A log insert of initialize rejects.  The info log of line 66 is inside the
\* inner try: its catch block issues the error log.  The error log of line
\* 73 is inside the catch block: the rejection leaves the loop, the outer
\* catch block reports it and initialize() returns.
InitializeLogFails ==
    /\ boot.pc \in {"logInfo", "logError"}
    /\ boot' = IF boot.pc = "logInfo"
               THEN [boot EXCEPT !.pc = "logError"]
               ELSE [boot EXCEPT !.pc = "done", !.caught = TRUE]
    /\ swLast' = Other
    /\ UNCHANGED <<workers, activeAgents, messageQueue, listeners,
                   responseCallbacks, sendLog, wk, pendUpsert, pendAlready,
                   swarm_agents, swarm_logs>>
    /\ UNCHANGED <<ends, smVars, down, sigVars>>

\* A process that starts over the store an earlier run has left, runs
\* initialize() and receives the events of the workers it spawns.
NextRecover ==
    \/ \E order \in Orders(getActiveAgents) : Initialize(order)
    \/ \E res \in Lookups : InitializeLookup(res)
    \/ InitializeStartSettled
    \/ InitializeLogged
    \/ \E a \in Agents, w \in WorkerIds : StartAgentSpawn(a, w)
    \/ \E w \in WorkerIds : WorkerInitOk(w)
    \/ \E w \in WorkerIds : WorkerInitFail(w)
    \/ \E w \in WorkerIds, crashed \in BOOLEAN, code \in {0, 1} :
            WorkerEnds(w, crashed, code)
    \/ \E w \in WorkerIds : OnMessage(w)
    \/ \E w \in WorkerIds : ReadyPersist(w)
    \/ \E w \in WorkerIds : StartupTimeout(w)
    \/ \E w \in WorkerIds : StartupTimeoutReject(w)
    \/ \E w \in WorkerIds : StartAgentTimedOut(w)
    \/ \E w \in WorkerIds : OnError(w)
    \/ \E w \in WorkerIds : OnExit(w)

\* The store as an earlier run may have left it
InitRecover ==
    /\ InitSM
    /\ InitSupervisor
    /\ swarm_agents \in [Agents -> {NoRow} \cup [status : AgentStatus]]

\* The agents the API layer is asked to start, stop and message.
Started == {"a1"}

NextSwarm ==
    \/ \E a \in Started : StartAgent(a)
    \/ \E a \in Started : StartAgentAlreadyRunning(a)
    \/ \E a \in Started, w \in WorkerIds : StartAgentSpawn(a, w)
    \/ \E a \in Started : StopAgent(a)
    \/ \E a \in Started : SendMessageNotActive(a)
    \/ \E a \in Started, type \in MessageTypes, k \in IdSuffixes :
            /\ Len(sendLog) < MaxSends
            /\ SendMessage(a, type, k)
    \/ \E w \in WorkerIds : WorkerInitOk(w)
    \/ \E w \in WorkerIds : WorkerInitFail(w)
    \/ \E w \in WorkerIds, ok \in BOOLEAN : WorkerReply(w, ok)
    \/ \E w \in WorkerIds, crashed \in BOOLEAN, code \in {0, 1} :
            WorkerEnds(w, crashed, code)
    \/ \E w \in WorkerIds : OnMessage(w)
    \/ \E w \in WorkerIds : ReadyPersist(w)
    \/ \E w \in WorkerIds : StartupTimeout(w)
    \/ \E w \in WorkerIds : StartupTimeoutReject(w)
    \/ \E w \in WorkerIds : StartAgentTimedOut(w)
    \/ \E w \in WorkerIds : OnError(w)
    \/ \E w \in WorkerIds : OnExit(w)


Init == InitSM /\ InitSwarm

\* The state machine of one agent under callers that may overlap.
Spec == Init /\ [][NextSM]_vars

\* The state machine of one agent under a caller that awaits each call.
SpecSeq == Init /\ [][NextSeq]_vars

\* The supervisor, its mailbox, the store and the worker threads.
SpecSwarm == Init /\ [][NextSwarm]_vars

\* The ids Date.now() and Math.random() may give to the sends of one agent
MailSuffixes == 1..MaxMailSuffix

\* One agent that is started and sent messages, with worker threads that stay
\* alive: the mailbox and its message ids.
NextMail ==
    \/ \E a \in Started : StartAgent(a)
    \/ \E a \in Started, w \in WorkerIds : StartAgentSpawn(a, w)
    \/ \E a \in Started, type \in MessageTypes, k \in MailSuffixes :
            /\ Len(sendLog) < MaxMailSends
            /\ SendMessage(a, type, k)
    \/ \E w \in WorkerIds : WorkerInitOk(w)
    \/ \E w \in WorkerIds, ok \in BOOLEAN : WorkerReply(w, ok)
    \/ \E w \in WorkerIds : OnMessage(w)
    \/ \E w \in WorkerIds : ReadyPersist(w)

SpecMail == Init /\ [][NextMail]_vars

(***************************************************************************)
(* SwarmManager.shutdown, lines 186-203                                    *)
(***************************************************************************)

\* The agents with an entry in the workers map
TrackedAgents == {a \in Agents : workers[a] # NoWorker}

\* The active agents the for loop of line 188 has still to visit: the Set is
\* iterated while it changes, so that the agents in it now count.
ToVisit(visited) == activeAgents \ visited

\* Lines 196-199: stopAgent is called for every key of the workers map; none
\* of the calls has an await, so all have run when map() returns.
StopAll ==
    /\ wk' = [w \in WorkerIds |->
                IF \E a \in TrackedAgents : workers[a] = w
                THEN terminate(wk[w]) ELSE wk[w]]
    /\ workers' = [a \in Agents |-> NoWorker]
    /\ messageQueue' = messageQueue \ TrackedAgents
    /\ listeners' = [a \in Agents |->
                        IF a \in TrackedAgents THEN <<>> ELSE listeners[a]]
    /\ activeAgents' = activeAgents \ TrackedAgents

\* shutdown() is called.  With an active agent the loop issues the log of the
\* first one and awaits it; with none the workers are stopped at once and the
\* call returns.
Shutdown ==
    /\ down.pc = "idle"
    /\ IF activeAgents = {}
       THEN /\ StopAll
            /\ down' = [down EXCEPT !.pc = "done",
                                    !.was = activeAgents,
                                    !.tracked = {workers[a] : a \in TrackedAgents}]
       ELSE /\ \E a \in activeAgents :
                  down' = [down EXCEPT !.pc = "log", !.cur = a,
                                      !.was = activeAgents,
                                      !.tracked =
                                          {workers[b] : b \in TrackedAgents}]
            /\ UNCHANGED <<workers, activeAgents, messageQueue, listeners,
                           wk>>
    /\ swLast' = Did("shutdown", NoAgent)
    /\ UNCHANGED <<responseCallbacks, sendLog, pendUpsert, pendAlready,
                   swarm_agents, swarm_logs>>
    /\ UNCHANGED <<ends, smVars, boot, sigVars>>

ShuttingDown(a) ==
    [agentId |-> a, type |-> "info", message |-> "Shutting down"]

\* Lines 189-199 after the await of a log: the entry is stored; the loop
\* issues the log of the next active agent, or the workers are stopped and the
\* call returns.
ShutdownLogged ==
    /\ down.pc = "log"
    /\ swarm_logs' = addLog(swarm_logs, down.cur, "info", "Shutting down")
    /\ LET visited == down.visited \cup {down.cur}
       IN IF ToVisit(visited) = {}
          THEN /\ StopAll
               /\ down' = [down EXCEPT !.pc = "done", !.cur = NoAgent,
                                       !.visited = visited]
          ELSE /\ \E a \in ToVisit(visited) :
                     down' = [down EXCEPT !.cur = a, !.visited = visited]
               /\ UNCHANGED <<workers, activeAgents, messageQueue, listeners,
                              wk>>
    /\ swLast' = Did("shutdown", NoAgent)
    /\ UNCHANGED <<responseCallbacks, sendLog, pendUpsert, pendAlready,
                   swarm_agents>>
    /\ UNCHANGED <<ends, smVars, boot, sigVars>>

\* One agent that is started and stopped from the API layer, whose worker may
\* end by itself, and a shutdown() at any moment; the process exits when
\* shutdown() has returned (app.ts 39-49).
\* Lines 189-193 when the log insert rejects: the catch block of lines 200-202
\* reports the error and shutdown() returns; no worker has been stopped.
ShutdownLogFails ==
    /\ down.pc = "log"
    /\ down' = [down EXCEPT !.pc = "done", !.cur = NoAgent, !.caught = TRUE]
    /\ swLast' = Did("shutdown", NoAgent)
    /\ UNCHANGED <<workers, activeAgents, messageQueue, listeners, wk,
                   responseCallbacks, sendLog, pendUpsert, pendAlready,
                   swarm_agents, swarm_logs>>
    /\ UNCHANGED <<ends, smVars, boot, sigVars>>

Exited == down.pc = "done"

NextDown ==
    \/ \E a \in Started : ~Exited /\ StartAgent(a)
    \/ \E a \in Started : ~Exited /\ StartAgentAlreadyRunning(a)
    \/ \E a \in Started, w \in WorkerIds : ~Exited /\ StartAgentSpawn(a, w)
    \/ \E a \in Started : ~Exited /\ StopAgent(a)
    \/ \E w \in WorkerIds : ~Exited /\ WorkerInitOk(w)
    \/ \E w \in WorkerIds, crashed \in BOOLEAN, code \in {0, 1} :
            ~Exited /\ WorkerEnds(w, crashed, code)
    \/ \E w \in WorkerIds : ~Exited /\ OnMessage(w)
    \/ \E w \in WorkerIds : ~Exited /\ ReadyPersist(w)
    \/ \E w \in WorkerIds : ~Exited /\ OnError(w)
    \/ \E w \in WorkerIds : ~Exited /\ OnExit(w)
    \/ Shutdown
    \/ ShutdownLogged

SpecDown == Init /\ [][NextDown]_vars

\* One agent whose worker may crash or exit, over a store whose log inserts
\* may reject.
NextFaulty ==
    \/ \E a \in Started : StartAgent(a)
    \/ \E a \in Started, w \in WorkerIds : StartAgentSpawn(a, w)
    \/ \E a \in Started : StopAgent(a)
    \/ \E w \in WorkerIds : WorkerInitOk(w)
    \/ \E w \in WorkerIds : WorkerInitFail(w)
    \/ \E w \in WorkerIds, crashed \in BOOLEAN, code \in {0, 1} :
            WorkerEnds(w, crashed, code)
    \/ \E w \in WorkerIds : OnMessage(w)
    \/ \E w \in WorkerIds : ReadyPersist(w)
    \/ \E w \in WorkerIds : OnError(w)
    \/ \E w \in WorkerIds : OnExit(w)
    \/ \E w \in WorkerIds : OnErrorLogFails(w)
    \/ \E w \in WorkerIds : OnExitLogFails(w)

SpecFaulty == Init /\ [][NextFaulty]_vars

\* The worker thread: start, initialisation that succeeds or fails, messages
\* of every type and their replies, and the parent's handlers of its
\* messages and of its exit.
NextWorker ==
    \/ \E a \in Started : StartAgent(a)
    \/ \E a \in Started, w \in WorkerIds : StartAgentSpawn(a, w)
    \/ \E a \in Started, type \in MessageTypes, k \in MailSuffixes :
            /\ Len(sendLog) < MaxMailSends
            /\ SendMessage(a, type, k)
    \/ \E w \in WorkerIds : WorkerInitOk(w)
    \/ \E w \in WorkerIds : WorkerInitFail(w)
    \/ \E w \in WorkerIds, ok \in BOOLEAN : WorkerReply(w, ok)
    \/ \E w \in WorkerIds : OnMessage(w)
    \/ \E w \in WorkerIds : ReadyPersist(w)
    \/ \E w \in WorkerIds : OnExit(w)

SpecWorker == Init /\ [][NextWorker]_vars

\* The worker belongs to an agent whose whole life cycle is exercised.
ActorUnit(w) == wk[w].agent \in Started

\* Two agents under one supervisor.  Both are started and sent messages; the
\* agents of Started are also stopped, and their workers may crash, exit and
\* miss the startup deadline.
NextPair ==
    \/ \E a \in Agents : StartAgent(a)
    \/ \E a \in Agents, w \in WorkerIds : StartAgentSpawn(a, w)
    \/ \E a \in Started : StopAgent(a)
    \/ \E a \in Agents, type \in MessageTypes, k \in IdSuffixes :
            /\ Len(sendLog) < MaxSends
            /\ SendMessage(a, type, k)
    \/ \E w \in WorkerIds : WorkerInitOk(w)
    \/ \E w \in WorkerIds, ok \in BOOLEAN : WorkerReply(w, ok)
    \/ \E w \in WorkerIds, crashed \in BOOLEAN, code \in {0, 1} :
            ActorUnit(w) /\ WorkerEnds(w, crashed, code)
    \/ \E w \in WorkerIds : OnMessage(w)
    \/ \E w \in WorkerIds : ReadyPersist(w)
    \/ \E w \in WorkerIds : ActorUnit(w) /\ StartupTimeout(w)
    \/ \E w \in WorkerIds : ActorUnit(w) /\ StartupTimeoutReject(w)
    \/ \E w \in WorkerIds : ActorUnit(w) /\ StartAgentTimedOut(w)
    \/ \E w \in WorkerIds : ActorUnit(w) /\ OnError(w)
    \/ \E w \in WorkerIds : ActorUnit(w) /\ OnExit(w)

SpecPair == Init /\ [][NextPair]_vars

\* One machine driven along INIT -> GOAL_PARSE -> PLANNING -> EXECUTING and
\* then to any state that is legal from EXECUTING, one awaited call at a
\* time.
PathDepth == 4

ScenarioPath == <<"GOAL_PARSE", "PLANNING", "EXECUTING">>

PathTargets ==
    IF Len(stateHistory) < Len(ScenarioPath)
    THEN {ScenarioPath[Len(stateHistory) + 1]}
    ELSE validTransitions[currentState]

NextPath ==
    \/ \E to \in PathTargets, action \in Actions, t2 \in LaterReads :
            /\ Len(stateHistory) < PathDepth
            /\ transitionToBegin(1, to, action, t2)
    \/ transitionToCommit(1)
    \/ Tick

SpecPath == Init /\ [][NextPath]_vars

\* One machine driven over the states on the way from INIT to COMPLETED and
\* back through IDLE, by transitionTo calls that may overlap; the clock
\* stands still.
RouteDepth == 6

RouteStates ==
    {"INIT", "GOAL_PARSE", "PLANNING", "EXECUTING", "VALIDATING",
     "COMPLETED", "IDLE"}

NextRoute ==
    \/ \E c \in CallIds, to \in RouteStates, action \in Actions :
            /\ Len(stateHistory) < RouteDepth
            /\ transitionToBegin(c, to, action, now)
    \/ \E c \in CallIds : transitionToCommit(c)

SpecRoute == Init /\ [][NextRoute]_vars

(***************************************************************************)
(* sign and verifySignature, sm.ts lines 140-155                           *)
(***************************************************************************)
\* The hashes hashState makes of the transitions out of INIT
SigHashes ==
    {hashState([from |-> "INIT", to |-> t, action |-> a,
                params |-> NullParams], ts) :
        t \in validTransitions["INIT"], a \in Actions, ts \in Clock}

\* A string that is not the hex form of a signature
NotHex == <<"zz">>

\* A machine constructed with the private key signs a hash.
Sign(privateKey, hash) ==
    /\ sigCheck = NoCheck
    /\ sigCheck' = [NoCheck EXCEPT !.key = privateKey, !.signed = hash,
                                   !.signature = signWith(privateKey, hash)]
    /\ UNCHANGED <<smVars, workers, activeAgents, messageQueue, listeners,
                   responseCallbacks, sendLog, wk, pendUpsert, pendAlready,
                   swarm_agents, swarm_logs, ends, swLast, runVars>>

\* verifySignature is called with a hash, a signature string and a public
\* key.
VerifySignature(hash, signature, publicKey) ==
    /\ sigCheck.signature # EmptyString
    /\ ~sigCheck.checked
    /\ sigCheck' = [sigCheck EXCEPT
            !.hash = hash, !.presented = signature, !.publicKey = publicKey,
            !.checked = TRUE,
            !.verified = verifySignature(hash, signature, publicKey)]
    /\ UNCHANGED <<smVars, workers, activeAgents, messageQueue, listeners,
                   responseCallbacks, sendLog, wk, pendUpsert, pendAlready,
                   swarm_agents, swarm_logs, ends, swLast, runVars>>

NextSig ==
    \/ \E k \in PrivateKeys, hash \in SigHashes : Sign(k, hash)
    \/ \E hash \in SigHashes, signature \in {sigCheck.signature, NotHex},
          k \in PrivateKeys :
            VerifySignature(hash, signature, publicKeyOf(k))

SpecSig == Init /\ [][NextSig]_vars

\* The mailbox with a worker that stays alive and finishes every message it
\* has been posted, and a parent event loop that runs every 'message' handler
\* whose event is due.
SpecMailLive ==
    /\ Init
    /\ [][NextMail]_vars
    /\ WF_vars(\E w \in WorkerIds : WorkerInitOk(w))
    /\ WF_vars(\E w \in WorkerIds, ok \in BOOLEAN : WorkerReply(w, ok))
    /\ WF_vars(\E w \in WorkerIds : OnMessage(w))

\* initialize() and shutdown() over a store whose query and log inserts may
\* reject.
NextCalls ==
    \/ \E order \in Orders(getActiveAgents) : ~Exited /\ Initialize(order)
    \/ ~Exited /\ InitializeQueryFails
    \/ \E res \in Lookups : ~Exited /\ InitializeLookup(res)
    \/ ~Exited /\ InitializeStartSettled
    \/ ~Exited /\ InitializeLogged
    \/ ~Exited /\ InitializeLogFails
    \/ \E a \in Agents, w \in WorkerIds : ~Exited /\ StartAgentSpawn(a, w)
    \/ \E w \in WorkerIds : ~Exited /\ WorkerInitOk(w)
    \/ \E w \in WorkerIds : ~Exited /\ OnMessage(w)
    \/ \E w \in WorkerIds : ~Exited /\ ReadyPersist(w)
    \/ \E w \in WorkerIds : ~Exited /\ StartupTimeout(w)
    \/ \E w \in WorkerIds : ~Exited /\ StartupTimeoutReject(w)
    \/ \E w \in WorkerIds : ~Exited /\ StartAgentTimedOut(w)
    \/ Shutdown
    \/ ShutdownLogged
    \/ ShutdownLogFails

SpecCalls == InitRecover /\ [][NextCalls]_vars

\* The supervisor restoring the agents of an earlier run.
SpecRecover == InitRecover /\ [][NextRecover]_vars

(***************************************************************************)
(* Properties of the state machine                                         *)
(***************************************************************************)

\* C1: a transitionTo whose target is not in validTransitions[currentState]
\* is rejected as an invalid transition and leaves currentState, the hash
\* history, the Merkle tree and the persisted rows unchanged; only a call
\* whose target is an edge of the current state goes on to generate a proof.
C1_InvalidTransitionRejected ==
    [][/\ \A c \in CallIds :
            (calls[c].pc = "idle" /\ calls'[c].pc = "broadcast")
                => calls'[c].to \in validTransitions[currentState]
       /\ (\E c \in CallIds, to \in AgentStates, action \in Actions :
                transitionToInvalid(c, to, action))
            => /\ smLast'.op = "invalid"
               /\ UNCHANGED <<currentState, stateHistory, merkleTree,
                              execution_logs, loggerLogs, proofLog>>]_vars

\* C1 witness: a call was rejected as invalid when a history already existed.
C1_Witness ==
    /\ smLast.op = "invalid"
    /\ Len(stateHistory) >= 1
    /\ Len(execution_logs) >= 1

\* The successful calls, in order: each inserted exactly one row, with the
\* state the machine held when the call was made and the target.
Succeeded == execution_logs

\* C2: with calls made one at a time, currentState is the target of the last
\* call that succeeded (INIT if none did), every successful call had its
\* target in validTransitions of the state before the call, and that state
\* was the target of the previous successful call.
C2_StateIsFoldOfTransitions ==
    LET n == Len(Succeeded)
    IN /\ currentState = IF n = 0 THEN "INIT" ELSE Succeeded[n].to_state
       /\ \A i \in 1..n :
            /\ Succeeded[i].to_state
                  \in validTransitions[Succeeded[i].from_state]
            /\ Succeeded[i].from_state =
                  IF i = 1 THEN "INIT" ELSE Succeeded[i - 1].to_state

\* C2 witness: two calls succeeded and the latest call failed afterwards.
C2_Witness ==
    /\ Len(Succeeded) >= 2
    /\ smLast.op \in {"invalid", "persistFail"}
    /\ calls[1] = Idle

C4_MerkleProofValid ==
    /\ \A k \in 1..Len(proofLog) :
        /\ proofLog[k].merkleRoot =
              getHexRoot(MerkleTree(SubSeq(stateHistory, 1, k)))
        /\ verifyHex(proofLog[k].merkleProof, proofLog[k].stateHash,
                     proofLog[k].merkleRoot)
    /\ \A i \in 1..Len(stateHistory) :
        verify(getProof(merkleTree, stateHistory[i]), stateHistory[i],
               getHexRoot(merkleTree))

\* C4 witness: a tree of three leaves, whose last leaf has no sibling in the
\* leaf layer, was built and a two-node proof was issued.
C4_Witness ==
    /\ Len(stateHistory) >= 3
    /\ Len(proofLog) >= 3
    /\ Len(proofLog[2].merkleProof) = 1
    /\ Len(getProof(merkleTree, stateHistory[1])) = 2

(***************************************************************************)
(* Properties of the supervisor                                            *)
(***************************************************************************)

\* C5: a startAgent that is rejected with 'Agent already running', made for
\* an active agent whose persisted status is running, leaves the agent's
\* membership of the active set, its tracked worker and its persisted status
\* as they were: the status is still running afterwards.
C5_AlreadyRunningChangesNothing ==
    [][\A a \in Agents :
        (StartAgentAlreadyRunning(a) /\ swarm_agents[a].status = "running")
            => /\ swarm_agents'[a].status = "running"
               /\ (a \in activeAgents') = (a \in activeAgents)
               /\ workers'[a] = workers[a]]_vars

\* The steps of the startAgent call that created worker w, from the timer on.
TimeoutPath(w) ==
    StartupTimeout(w) \/ StartupTimeoutReject(w) \/ StartAgentTimedOut(w)

C7_SendToInactiveRejected ==
    [][/\ \A a \in Agents :
            SendMessageNotActive(a)
                => /\ swLast' = Did("sendReject", a)
                   /\ UNCHANGED <<responseCallbacks, sendLog, messageQueue,
                                  listeners, wk>>
       /\ \A id \in DOMAIN responseCallbacks' \ DOMAIN responseCallbacks :
            id[1] \in activeAgents
       /\ Len(sendLog') > Len(sendLog)
            => sendLog'[Len(sendLog')].agent \in activeAgents
       /\ \A w \in WorkerIds :
            Len(wk'[w].inbox) > Len(wk[w].inbox)
                => wk[w].agent \in activeAgents]_vars

\* C7 witness: a send was rejected for an agent that has a tracked worker
\* and a registered mailbox but is not active yet.
C7_Witness ==
    \E a \in Agents :
        /\ swLast = Did("sendReject", a)
        /\ workers[a] # NoWorker
        /\ a \in messageQueue
        /\ listeners[a] # <<>>
        /\ responseCallbacks = <<>>
        /\ sendLog = <<>>

Warning(a) ==
    [agentId |-> a, type |-> "warning", message |-> "Exited with code 1"]

C9_StopAgent ==
    [][\A a \in Agents :
        StopAgent(a)
            => IF workers[a] # NoWorker
               THEN /\ wk'[workers[a]].phase = "dead"
                    /\ workers'[a] = NoWorker
                    /\ a \notin messageQueue'
                    /\ listeners'[a] = <<>>
                    /\ ~isAgentActive(a)'
               ELSE UNCHANGED <<workers, activeAgents, messageQueue,
                                listeners, responseCallbacks, sendLog, wk,
                                pendUpsert, pendAlready, swarm_agents,
                                swarm_logs>>]_vars

\* C9 witness: an agent whose worker an earlier stopAgent terminated has been
\* stopped again, and nothing was tracked for it.
C9_Witness ==
    \E a \in Agents, w \in WorkerIds :
        /\ swLast = [op |-> "stop", agent |-> a, tracked |-> FALSE,
                     active |-> FALSE]
        /\ wk[w].agent = a
        /\ wk[w].phase = "dead"
        /\ wk[w].exitEv = "pending"
        /\ ends = 0
        /\ workers[a] = NoWorker
        /\ a \notin messageQueue

\* C10: after an agent has been stopped, by stopAgent from the API layer or
\* by the error or exit handler, its persisted status is stopped, so that
\* getActiveAgents does not return it.
C10_StoppedAgentPersistedStopped ==
    \A a \in Agents :
        (swLast.agent = a /\ swLast.op \in {"stop", "errorStop", "exitStop"}
            /\ swLast.tracked)
            => /\ swarm_agents[a].status = "stopped"
               /\ a \notin getActiveAgents

\* The records initialize() was given
Records == {boot.order[i] : i \in 1..Len(boot.order)}

Resolving ==
    {i \in 1..Len(sendLog) : sendLog'[i].resolved = sendLog[i].resolved + 1}

\* C12: when a reply with a message id is handed to sendResponse and the id
\* is pending, the entry of the id is removed and the resolver of exactly one
\* promise is called, a promise made by a send that generated that id; when
\* the id is not pending (unknown, or resolved already) neither the entries
\* nor the promises change; no resolver is ever called twice.
C12_SendResponseResolvesOnce ==
    [][/\ \A w \in WorkerIds :
            (/\ wk[w].toParent # <<>>
             /\ wk'[w].toParent = Tail(wk[w].toParent)
             /\ Head(wk[w].toParent).messageId # NoMessageId)
                => LET id == Head(wk[w].toParent).messageId
                   IN IF id \in DOMAIN responseCallbacks
                      THEN /\ id \notin DOMAIN responseCallbacks'
                           /\ DOMAIN responseCallbacks'
                                 = DOMAIN responseCallbacks \ {id}
                           /\ Cardinality(Resolving) = 1
                           /\ \A i \in Resolving :
                                 /\ sendLog[i].messageId = id
                                 /\ sendLog[i].resolved = 0
                           /\ \A i \in 1..Len(sendLog) \ Resolving :
                                 sendLog'[i] = sendLog[i]
                      ELSE UNCHANGED <<responseCallbacks, sendLog>>
       /\ \A i \in 1..Len(sendLog') : sendLog'[i].resolved <= 1]_vars

\* C12 witness: two replies with the same id have been handed to
\* sendResponse; the first resolved one promise, the second found no entry.
C12_Witness ==
    /\ Len(sendLog) = 2
    /\ sendLog[1].messageId = sendLog[2].messageId
    /\ sendLog[1].resolved + sendLog[2].resolved = 1
    /\ responseCallbacks = <<>>
    /\ \A w \in WorkerIds : wk[w].toParent = <<>> /\ wk[w].inbox = <<>>

\* C13: every send of a session has a message id of its own, so that no
\* entry of responseCallbacks is replaced by a later send.
C13_MessageIdsUnique ==
    \A i, j \in 1..Len(sendLog) :
        i # j => sendLog[i].messageId # sendLog[j].messageId

\* A transitionTo call ends in this step without a row having been stored.
EndsUnpersisted(c) ==
    /\ calls[c].pc = "broadcast"
    /\ calls'[c] = Idle
    /\ execution_logs' = execution_logs

\* C14: a transitionTo whose insert fails is not failed and not rolled back:
\* when the call ends currentState is its target, its hash is in the history
\* and the Proof is returned.
C14_PersistFailureNotFatal ==
    [][\A c \in CallIds :
        EndsUnpersisted(c)
            => /\ currentState' = calls[c].to
               /\ \E i \in 1..Len(stateHistory') :
                     stateHistory'[i] = calls[c].proof.stateHash
               /\ smLast' = [op |-> "ok", call |-> c]]_vars

\* C15: a transitionTo returns its Proof only when the insert of that proof
\* has completed: in the step in which the call returns the row holding the
\* proof is in execution_logs.
C15_ReturnsAfterPersist ==
    [][\A c \in CallIds :
        (/\ calls[c].pc = "broadcast"
         /\ calls'[c] = Idle
         /\ smLast' = [op |-> "ok", call |-> c])
            => \E i \in 1..Len(execution_logs') :
                  /\ execution_logs'[i].proof = calls[c].proof
                  /\ execution_logs'[i].to_state = calls[c].to]_vars

\* C15 witness: two calls have returned, no call is in flight and the rows
\* of both proofs are stored.
C15_Witness ==
    /\ smLast.op = "ok"
    /\ \A c \in CallIds : calls[c] = Idle
    /\ Len(proofLog) = 2
    /\ Len(execution_logs) = 2
    /\ \A i \in 1..2 :
          \E j \in 1..2 : execution_logs[j].proof = proofLog[i]

\* C16: once currentState is TERMINATED it stays TERMINATED and no later
\* transitionTo is accepted (no proof is generated); getAvailableTransitions
\* is empty in TERMINATED and in no other state.
C16_TerminatedIsTerminal ==
    [][/\ currentState = "TERMINATED"
            => /\ currentState' = "TERMINATED"
               /\ stateHistory' = stateHistory
       /\ \A st \in AgentStates :
            getAvailableTransitions(st) = {} <=> st = "TERMINATED"]_vars

\* The startAgent call that made the tracked worker of agent a has rejected
\* with the startup timeout and that worker's thread is still running.
TimedOutUnitTracked(a) ==
    /\ workers[a] # NoWorker
    /\ wk[workers[a]].call = "rejected"
    /\ wk[workers[a]].phase \in {"init", "ready"}

\* C17: while the worker of a timed-out startAgent is still running and
\* tracked, no startAgent for that agent passes the check of line 88 and
\* none creates a second worker.
C17_NoSecondUnitAfterTimeout ==
    [][\A a \in Agents, w \in WorkerIds :
        TimedOutUnitTracked(a)
            => /\ pendUpsert'[a] <= pendUpsert[a]
               /\ ~(/\ wk[w].phase = "unborn"
                    /\ wk'[w].phase = "init"
                    /\ wk'[w].agent = a)]_vars

\* C18: a worker is created with status starting stored for its agent; the
\* status becomes running only by the write the ready handler issued, which
\* is issued only on a ready message; a startAgent call resolves only in the
\* step that delivers the ready of its worker, and at that moment the agent
\* is in the active set.
C18_StartOrder ==
    [][/\ \A w \in WorkerIds :
            /\ (wk[w].phase = "unborn" /\ wk'[w].phase # "unborn")
                  => swarm_agents'[wk'[w].agent].status = "starting"
            /\ (~wk[w].runWrite /\ wk'[w].runWrite)
                  => wk[w].toParent # <<>> /\ Head(wk[w].toParent) = Ready
            /\ (wk[w].call # "resolved" /\ wk'[w].call = "resolved")
                  => /\ wk[w].toParent # <<>>
                     /\ Head(wk[w].toParent) = Ready
                     /\ wk'[w].toParent = Tail(wk[w].toParent)
                     /\ isAgentActive(wk[w].agent)'
       /\ \A a \in Agents :
            (swarm_agents[a].status # "running"
                /\ swarm_agents'[a].status = "running")
                  => \E w \in WorkerIds :
                        /\ wk[w].agent = a
                        /\ wk[w].runWrite
                        /\ ~wk'[w].runWrite]_vars

\* C18 witness: a startAgent call has just resolved on the ready of its
\* worker; the agent is active and the running write has not completed: the
\* stored status is still starting.
C18_Witness ==
    \E a \in Agents, w \in WorkerIds :
        /\ swLast = Did("startOk", a)
        /\ workers[a] = w
        /\ wk[w].call = "resolved"
        /\ wk[w].runWrite
        /\ isAgentActive(a)
        /\ swarm_agents[a].status = "starting"

\* The error or the exit event of worker w is handled in this step.
HandlesEnd(w) ==
    \/ wk[w].errEv = "pending" /\ wk'[w].errEv = "done"
    \/ wk[w].exitEv = "pending" /\ wk'[w].exitEv = "done"

\* C19: when the error or the exit event of the tracked worker of an active
\* agent has been handled the agent is stopped, whether the log insert of
\* the handler succeeded or not: the worker is untracked, the agent is out
\* of the active set and its mailbox is unregistered.
C19_HandlerStopsDespiteLogFailure ==
    [][\A w \in WorkerIds :
        (/\ HandlesEnd(w)
         /\ workers[wk[w].agent] = w
         /\ isAgentActive(wk[w].agent))
            => /\ workers'[wk[w].agent] = NoWorker
               /\ ~isAgentActive(wk[w].agent)'
               /\ wk[w].agent \notin messageQueue'
               /\ listeners'[wk[w].agent] = <<>>]_vars

\* C20: when shutdown() has returned the workers map is empty, every worker
\* that was tracked when it was called is terminated, the active set is
\* empty and every agent that was active has its 'Shutting down' entry.
C20_ShutdownStopsEverything ==
    down.pc = "done"
        => /\ TrackedAgents = {}
           /\ \A w \in down.tracked : wk[w].phase = "dead"
           /\ activeAgents = {}
           /\ \A a \in down.was : ShuttingDown(a) \in swarm_logs

\* C21: initialize() and shutdown() never reject: a query or a log insert
\* that rejects, a lookup that throws and a startAgent that rejects all end
\* in a catch block of the call, which then returns.
C21_CallsNeverReject ==
    /\ boot.pc # "rejected"
    /\ down.pc # "rejected"
    /\ boot.caught => boot.pc = "done"
    /\ down.caught => down.pc = "done"

\* C21 witness: the error log of initialize's inner catch block rejected with
\* a record still to come, and the log insert of shutdown rejected with a
\* worker still tracked; both calls have returned.
C21_Witness ==
    /\ boot.pc = "done"
    /\ boot.caught
    /\ Len(boot.queue) = 2
    /\ down.pc = "done"
    /\ down.caught
    /\ TrackedAgents # {}

\* C22: once unregisterAgent has run for an agent (it has no queue), the agent
\* has no message listener, and no promise of a send to that agent is
\* resolved by a response that arrives afterwards.
C22_UnregisteredNeverResolved ==
    [][\A i \in DOMAIN sendLog :
          sendLog[i].agent \notin messageQueue
          => /\ listeners[sendLog[i].agent] = <<>>
             /\ sendLog'[i].resolved = sendLog[i].resolved]_vars

\* The error or exit handler of a worker has just run for agent a, whose
\* tracked worker it stopped.
CrashHandled(a) ==
    /\ swLast.op \in {"errorStop", "exitStop"}
    /\ swLast.agent = a
    /\ swLast.tracked

\* C23: once the error or exit handler has stopped an agent, the agent has no
\* tracked worker and is not active, and no step other than a startAgent
\* call makes it tracked or active again.
C23_CrashedStaysStopped ==
    [][\A a \in Agents :
          CrashHandled(a)
          => /\ workers[a] = NoWorker
             /\ ~isAgentActive(a)
             /\ (~StartAgent(a) /\ ~(\E w \in WorkerIds : StartAgentSpawn(a, w)))
                    => /\ workers'[a] = NoWorker
                       /\ ~isAgentActive(a)']_vars

\* The message ids of the accepted sendMessage calls, in call order.
SentIds == [i \in 1..Len(sendLog) |-> sendLog[i].messageId]

\* The message ids a worker has been posted and has not taken yet, in the
\* order in which the thread will take them.
InboxIds(w) == [i \in 1..Len(wk[w].inbox) |-> wk[w].inbox[i].messageId]

\* C24: the messages posted to a live worker and not yet taken by it are the
\* latest accepted sendMessage calls, in call order; the thread takes them
\* from the head, so it is posted the messages in the order of the calls.
C24_PostedInCallOrder ==
    \A w \in WorkerIds :
        wk[w].phase \in {"init", "ready"}
        => /\ Len(wk[w].inbox) <= Len(sendLog)
           /\ InboxIds(w) =
                SubSeq(SentIds, Len(sendLog) - Len(wk[w].inbox) + 1,
                       Len(sendLog))

\* C24 witness: two calls with different message ids were accepted for the
\* active agent a1 and both messages wait in its worker's inbox.
C24_Witness ==
    \E w \in WorkerIds :
        /\ workers["a1"] = w
        /\ isAgentActive("a1")
        /\ wk[w].phase = "ready"
        /\ Len(wk[w].inbox) = 2
        /\ wk[w].inbox[1].messageId # wk[w].inbox[2].messageId
        /\ SentIds = InboxIds(w)

\* C25: with a worker that stays alive and finishes every message, the
\* promise of every accepted sendMessage call is eventually resolved.
C25_EverySendResolves ==
    \A i \in 1..MaxMailSends :
        (i \in DOMAIN sendLog)
            ~> (i \in DOMAIN sendLog /\ sendLog[i].resolved >= 1)

\* A call of startAgent, stopAgent or sendMessage for agent a, or a handler
\* run for a message, error, exit or startup timeout of a worker of agent a.
AgentStep(a) ==
    \/ StartAgent(a)
    \/ \E w \in WorkerIds : StartAgentSpawn(a, w)
    \/ StopAgent(a)
    \/ \E type \in MessageTypes, k \in IdSuffixes : SendMessage(a, type, k)
    \/ \E w \in WorkerIds :
          /\ wk[w].agent = a
          /\ \/ OnMessage(w)
             \/ ReadyPersist(w)
             \/ StartupTimeout(w)
             \/ StartupTimeoutReject(w)
             \/ StartAgentTimedOut(w)
             \/ OnError(w)
             \/ OnExit(w)

\* The resolvers pending for sends to agent b, by message id.
PendingOf(b) ==
    {<<id, responseCallbacks[id]>> :
        id \in {x \in DOMAIN responseCallbacks : x[1] = b}}

\* C26: a call or an event for agent a leaves the active-set membership, the
\* tracked worker, the mailbox registration and the pending requests of every
\* other agent unchanged.
C26_OtherAgentsUntouched ==
    [][\A a \in Agents : AgentStep(a) =>
          \A b \in Agents \ {a} :
              /\ isAgentActive(b)' = isAgentActive(b)
              /\ workers'[b] = workers[b]
              /\ (b \in messageQueue') = (b \in messageQueue)
              /\ listeners'[b] = listeners[b]
              /\ PendingOf(b)' = PendingOf(b)
              /\ workers[b] # NoWorker
                    => wk'[workers[b]].phase = wk[workers[b]].phase]_vars

\* C26 witness: the error handler has just stopped a1, which was tracked and
\* active, while a2 is active with a tracked live worker, a registered
\* mailbox and a pending request.
C26_Witness ==
    /\ swLast = [op |-> "errorStop", agent |-> "a1", tracked |-> TRUE,
                 active |-> TRUE]
    /\ isAgentActive("a2")
    /\ workers["a2"] # NoWorker
    /\ wk[workers["a2"]].phase = "ready"
    /\ "a2" \in messageQueue
    /\ listeners["a2"] # <<>>
    /\ PendingOf("a2") # {}
    /\ workers["a1"] = NoWorker

\* The transition hashed into an entry of the hash history.
Recorded(hash) == [from |-> hash[2][2], to |-> hash[2][3]]

\* C27: under any interleaving of transitionTo calls, each entry of the hash
\* history starts in the state the entry before it leads to, and an entry is
\* appended only for a transition that is legal in the state the machine
\* holds at that moment.
C27_HistorySequential ==
    [][LET h == stateHistory'
       IN /\ \A k \in 2..Len(h) :
                Recorded(h[k]).from = Recorded(h[k - 1]).to
          /\ Len(h) = Len(stateHistory) + 1
                => /\ Recorded(h[Len(h)]).from = currentState
                   /\ Recorded(h[Len(h)]).to
                         \in validTransitions[currentState]]_vars

C29_OldProofStillValid ==
    /\ Len(proofLog) = 4
        => verifyHex(proofLog[2].merkleProof, proofLog[2].stateHash,
                     getHexRoot(merkleTree))
    /\ Len(proofLog) >= 4
        => \A k \in 1..Len(proofLog) :
              verifyHex(proofLog[k].merkleProof, proofLog[k].stateHash,
                        getHexRoot(merkleTree))

\* The timestamp hashState has put into a hash.
HashedAt(hash) == hash[2][1]

\* C30: two transitions with the same from, to, action and params get the
\* same stateHash whenever they are hashed, and the timestamp of a Proof is
\* the timestamp that went into its stateHash.
C30_HashOfRecordAlone ==
    /\ \A i, j \in 1..Len(proofLog) :
          (/\ loggerLogs[i].from = loggerLogs[j].from
           /\ loggerLogs[i].to = loggerLogs[j].to
           /\ loggerLogs[i].action = loggerLogs[j].action)
              => proofLog[i].stateHash = proofLog[j].stateHash
    /\ \A k \in 1..Len(proofLog) :
          proofLog[k].timestamp = HashedAt(proofLog[k].stateHash)

\* The startAgent call that created worker w was rejected with
\* 'Startup timeout'.
TimedOut(w) == wk[w].call = "rejected" /\ wk[w].timer = "done"

\* C31: after startAgent was rejected with a startup timeout, no message of
\* the worker that call created adds the agent to the active set, and no
\* write issued for that worker stores the status running.
C31_LateReadyDoesNotActivate ==
    [][\A w \in WorkerIds :
          TimedOut(w)
          => /\ OnMessage(w) => activeAgents' = activeAgents
             /\ ReadyPersist(w) => swarm_agents' = swarm_agents]_vars

\* The workers created for agent a whose thread has not ended.
LiveUnits(a) ==
    {w \in WorkerIds : wk[w].agent = a /\ wk[w].phase \in {"init", "ready"}}

\* C32: an agent has at most one worker whose thread has not ended, and that
\* worker is the one the workers map holds for the agent.
C32_OneLiveUnitPerAgent ==
    \A a \in Agents :
        /\ Cardinality(LiveUnits(a)) <= 1
        /\ \A w \in LiveUnits(a) : workers[a] = w

\* Worker w of agent a was terminated by stopAgent (no thread has ended by
\* itself) and the workers map now holds another worker for a.
Replaced(w, a) ==
    /\ wk[w].agent = a
    /\ wk[w].phase = "dead"
    /\ ends = 0
    /\ workers[a] # NoWorker
    /\ workers[a] # w

\* C33: the exit or error handler of a worker that was stopped and has been
\* replaced leaves the new worker of the agent running and tracked and leaves
\* the agent's membership of the active set as it is.
C33_StaleEventSparesNewUnit ==
    [][\A w \in WorkerIds, a \in Agents :
          (Replaced(w, a) /\ (OnExit(w) \/ OnError(w)))
          => /\ workers'[a] = workers[a]
             /\ wk'[workers[a]].phase = wk[workers[a]].phase
             /\ isAgentActive(a)' = isAgentActive(a)]_vars

\* C34: every agent in the active set has a tracked worker in the workers
\* map.
C34_ActiveAgentIsTracked ==
    \A a \in Agents : isAgentActive(a) => workers[a] # NoWorker

\* The workers a step posts a message to.
PostedTo == {w \in WorkerIds : Len(wk'[w].inbox) = Len(wk[w].inbox) + 1}

\* C35: a sendMessage call that is accepted posts its message to exactly one
\* worker, the one the workers map holds for the agent.
C35_PostedToTrackedUnitOnly ==
    [][\A a \in Agents :
          (\E type \in MessageTypes, k \in IdSuffixes : SendMessage(a, type, k))
          => PostedTo = {workers[a]}]_vars

\* No transitionTo call is suspended.
NoCallInProgress == \A c \in CallIds : calls[c] = Idle

\* C36: whenever no transitionTo call is in progress, the hash history has
\* one entry per call that succeeded: a call that rejected, for an illegal
\* target or for a failed write, has left no hash.
C36_RejectedCallLeavesNoHash ==
    NoCallInProgress => Len(stateHistory) = Len(Succeeded)

\* The messages a step makes worker w post to its parent.
Posted(w) ==
    IF Len(wk'[w].toParent) > Len(wk[w].toParent)
    THEN SubSeq(wk'[w].toParent, Len(wk[w].toParent) + 1,
                Len(wk'[w].toParent))
    ELSE <<>>

\* Worker w takes the message at the head of its inbox.
Takes(w) ==
    /\ wk[w].inbox # <<>>
    /\ wk'[w].inbox = Tail(wk[w].inbox)
    /\ wk'[w].phase = "ready"

\* C37: a worker that takes a message posts exactly one reply with the id of
\* that message, with success true for system and for chat whose processing
\* returns, and false for any other type and for chat whose processing
\* throws; ready is posted only in the step that ends a successful
\* initialisation, after which the worker takes messages; a failed
\* initialisation posts an error, ends the thread with code 1, and a thread
\* that has ended posts nothing.
C37_WorkerProtocol ==
    [][\A w \in WorkerIds :
          /\ Takes(w)
                => /\ Len(Posted(w)) = 1
                   /\ Posted(w)[1].messageId = Head(wk[w].inbox).messageId
                   /\ Head(wk[w].inbox).type = "system"
                         => Posted(w)[1].success
                   /\ Head(wk[w].inbox).type \notin {"chat", "system"}
                         => ~Posted(w)[1].success
                   /\ \A ok \in BOOLEAN :
                         (WorkerReply(w, ok) /\ Head(wk[w].inbox).type = "chat")
                            => Posted(w)[1].success = ok
          /\ (\E i \in 1..Len(Posted(w)) : Posted(w)[i].type = "ready")
                => /\ wk[w].phase = "init"
                   /\ wk'[w].phase = "ready"
                   /\ Posted(w) = <<Ready>>
          /\ wk[w].phase # "ready" => ~Takes(w)
          /\ WorkerInitFail(w)
                => /\ Posted(w) = <<InitError>>
                   /\ wk'[w].phase = "dead"
                   /\ wk'[w].exitCode = 1
          /\ wk[w].phase = "dead" => Posted(w) = <<>>]_vars

\* C37 witness: a ready worker has replied to two messages with different
\* ids, once with success true and once with success false, and the parent
\* has handled neither reply yet.
C37_Witness ==
    \E w \in WorkerIds :
        /\ wk[w].phase = "ready"
        /\ Len(sendLog) = 2
        /\ Len(wk[w].toParent) = 2
        /\ wk[w].toParent[1].messageId = sendLog[1].messageId
        /\ wk[w].toParent[2].messageId = sendLog[2].messageId
        /\ sendLog[1].messageId # sendLog[2].messageId
        /\ wk[w].toParent[1].success
        /\ ~wk[w].toParent[2].success

\* C38: an agent has a mailbox queue exactly when the workers map holds a
\* worker for it.
C38_QueueIffTracked ==
    \A a \in Agents : (a \in messageQueue) <=> (workers[a] # NoWorker)

\* C38 witness: a second worker was created for a1 after stopAgent had
\* stopped its first, tracked and active, worker; a1 has a queue and the map
\* holds the second worker.
C38_Witness ==
    /\ workers["a1"] = 2
    /\ "a1" \in messageQueue
    /\ wk[1].agent = "a1"
    /\ wk[1].phase = "dead"
    /\ wk[1].exitEv = "done"
    /\ ends = 0
    /\ listeners["a1"] = <<2>>

\* The position of the last successful transition into INIT (0 if none).
LastInit ==
    LET S == {i \in 1..Len(Succeeded) : Succeeded[i].to_state = "INIT"}
    IN IF S = {} THEN 0 ELSE CHOOSE i \in S : \A j \in S : j <= i

\* The successful transitions after position n entered GOAL_PARSE, later
\* PLANNING and later EXECUTING.
PassedInOrder(n) ==
    \E i, j, k \in (n + 1)..Len(Succeeded) :
        /\ i < j
        /\ j < k
        /\ Succeeded[i].to_state = "GOAL_PARSE"
        /\ Succeeded[j].to_state = "PLANNING"
        /\ Succeeded[k].to_state = "EXECUTING"

\* C39: whenever currentState is COMPLETED, the successful transitions since
\* the machine was last in INIT entered GOAL_PARSE, PLANNING and EXECUTING in
\* that order, and currentState becomes COMPLETED only in a machine whose
\* currentState is VALIDATING or REPORTING.
C39_CompletedOnlyViaPipeline ==
    [][/\ currentState' = "COMPLETED" => PassedInOrder(LastInit)'
       /\ (currentState # "COMPLETED" /\ currentState' = "COMPLETED")
            => currentState \in {"VALIDATING", "REPORTING"}]_vars

====
